---- MODULE Spec2Model ----
(***************************************************************************)
(* DeepGit: the repository discovery and ranking pipeline.                 *)
(*                                                                         *)
(* Each pipeline stage is modelled from its source file and checked under  *)
(* a specification of its own:                                             *)
(*   SpecFilter   tools/filtering.py        threshold_filtering            *)
(*   SpecMerge    tools/merge_analysis.py   merge_analysis                 *)
(*   SpecRerank   tools/cross_encoder_reranking.py  cross_encoder_reranking *)
(*   SpecDoc      tools/github.py           fetch_repo_documentation       *)
(*   SpecQuery    tools/github.py           the search requests built by   *)
(*                                          ingest_github_repos_async      *)
(*   SpecIngest   tools/github.py           ingest_github_repos_async and  *)
(*                                          fetch_github_repositories      *)
(*                                                                         *)
(* Candidate records are Python dicts: functions from field names to       *)
(* values, whose domain may lack a field.  Scores are fixed-point numbers  *)
(* in thousandths (0.3 is 300).                                            *)
(***************************************************************************)
EXTENDS Integers, Sequences, FiniteSets, TLC

VARIABLES
    pc,                  \* position of the stage being run
    \* ---- tools/filtering.py
    reranked_candidates, \* state.reranked_candidates
    cross_encoder_threshold, \* agent_config.cross_encoder_threshold
    hardware_spec,       \* state.hardware_spec (optional string)
    hardware_filtered,   \* state.hardware_filtered (optional list)
    filtered_candidates, \* state.filtered_candidates
    \* ---- tools/merge_analysis.py
    project_type,        \* state.project_type
    activity_candidates, \* state.activity_candidates
    quality_candidates,  \* state.quality_candidates
    allow_list,          \* history: state.filtered_candidates as merge_analysis found it
    \* ---- tools/cross_encoder_reranking.py
    semantic_ranked,     \* state.semantic_ranked (its dicts are scored in place)
    cross_encoder_top_n, \* agent_config.cross_encoder_top_n
    rerank_raw,          \* history: the scores the first loop of the reranker set
    rerank_adjusted,     \* history: the scores after the boost and the penalty
    rerank_preds,        \* history: what cross_encoder.predict did for each candidate
    \* ---- tools/github.py, fetch_repo_documentation
    readme_fetched,      \* what fetch_readme_content returned (a text)
    root_listing_ok,     \* whether the root contents listing was fetched and read
    doc_results,         \* the gathered results of the markdown and docs/ fetches
    doc_return,          \* (final_doc, readme_size, arch_doc_size) as returned
    \* ---- tools/github.py, the tasks of one gather
    fetch_page,          \* what the hits of a search page hold (markdown files, docs/ dir)
    fetch_tasks,         \* the fetch_repo_documentation task of each hit of the page
    enrich_tasks,        \* the fetch_simple_metadata coroutine of each unique repository
    \* ---- tools/github.py, ingest_github_repos_async: the search requests
    searchable_queries,  \* state.searchable_queries (list of combo strings)
    searchable_query,    \* state.searchable_query (legacy colon-separated string)
    search_requests,     \* the local list search_requests
    \* ---- tools/github.py, ingest_github_repos_async and fetch_github_repositories
    max_results,         \* agent_config.max_results
    per_page,            \* agent_config.per_page
    req_i,               \* the search request being executed (1-based)
    page,                \* the page of the loop in fetch_github_repositories
    page_log,            \* history: the fetches and sleeps of the current search, page by page
    search_log,          \* history: the searches started and ended and the sleeps between them
    aborted,             \* history: the search requests whose page loop ended by break
    in_flight,           \* the search-API requests awaited: pairs (search request, page)
    meta_responses,      \* history: what the metadata requests of each unique repository met
    repositories,        \* the local list repositories of fetch_github_repositories
    all_repos,           \* the local list all_repos
    state_repositories,  \* state.repositories, the value returned
    \* ---- tools/personal_analysis.py, evaluate_personal_project
    repo_data,           \* the argument repo_data (a dict)
    file_list,           \* the argument file_list (a list of paths)
    eval_score,          \* the local score
    eval_signals,        \* the local dict signals
    llm_log,             \* history: what each invocation of the LLM chain met
    eval_result,         \* the dict returned
    \* ---- tools/github.py, fetch_file_content and FILE_CONTENT_CACHE
    FILE_CONTENT_CACHE,  \* the module-level dict: download URL -> text
    cache_tasks,         \* the fetch_file_content coroutines started so far
    \* ---- tools/github.py, fetch_directory_markdown
    dir_items,           \* items: the listing of the directory
    dir_results,         \* results: what the gather of the file fetches returned
    dir_md               \* md_content as returned: its sections (header, content)

filterVars == <<reranked_candidates, cross_encoder_threshold, hardware_spec,
                hardware_filtered, filtered_candidates>>
mergeVars == <<project_type, activity_candidates, quality_candidates, allow_list>>
rerankVars == <<semantic_ranked, cross_encoder_top_n, rerank_raw, rerank_adjusted,
                rerank_preds>>
assemblyVars == <<readme_fetched, root_listing_ok, doc_results, doc_return>>
taskVars == <<fetch_page, fetch_tasks, enrich_tasks>>
docVars == <<assemblyVars, taskVars>>
queryVars == <<searchable_queries, searchable_query, search_requests>>
ingestVars == <<max_results, per_page, req_i, page, page_log, search_log,
                aborted, in_flight, meta_responses, repositories, all_repos,
                state_repositories>>
evalVars == <<repo_data, file_list, eval_score, eval_signals, llm_log, eval_result>>
cacheVars == <<FILE_CONTENT_CACHE, cache_tasks>>
dirVars == <<dir_items, dir_results, dir_md>>
otherVars == <<evalVars, cacheVars, dirVars>>
vars == <<pc, filterVars, mergeVars, rerankVars, docVars, queryVars, ingestVars, otherVars>>

(***************************************************************************)
(* Python helpers                                                          *)
(***************************************************************************)
\* Sequences over S of length at most n.
SeqUpTo(S, n) == UNION {[1..k -> S] : k \in 0..n}

\* dict.get(k, dflt)
Get(d, k, dflt) == IF k \in DOMAIN d THEN d[k] ELSE dflt

\* An optional value: None, or a value that is present.
None == [some |-> FALSE]
Some(x) == [some |-> TRUE, v |-> x]

\* The full names of a list of candidate dicts, as a set.
KeySet(cands) == {cands[i]["full_name"] : i \in DOMAIN cands}

\* The full names the model draws candidates from.
Names == {"o/a", "o/b"}

\* The values of the stages a specification does not run.
MergeIdle ==
    /\ project_type = "All"
    /\ activity_candidates = <<>>
    /\ quality_candidates = <<>>
    /\ allow_list = <<>>

RerankIdle ==
    /\ semantic_ranked = <<>>
    /\ cross_encoder_top_n = 0
    /\ rerank_raw = <<>>
    /\ rerank_adjusted = <<>>
    /\ rerank_preds = <<>>

\* A text is modelled by its length in characters, by whether it is blank
\* (str.strip() leaves nothing), by whether it holds a truncation marker, and
\* by whether fetched content was left out of it at a place that has no
\* marker.  A text as fetched has neither.
Text(n, b) == [len |-> n, blank |-> b, marked |-> FALSE, cut_unmarked |-> FALSE]
EmptyText == Text(0, TRUE)

AssemblyIdle ==
    /\ readme_fetched = EmptyText
    /\ root_listing_ok = FALSE
    /\ doc_results = <<>>
    /\ doc_return = <<EmptyText, 0, 0>>

TasksIdle ==
    /\ fetch_page = [hits |-> 0, md_files |-> 0, has_dir |-> FALSE, dir_md_files |-> 0]
    /\ fetch_tasks = <<>>
    /\ enrich_tasks = <<>>

DocIdle == AssemblyIdle /\ TasksIdle

EvalIdle ==
    /\ repo_data = <<>>
    /\ file_list = <<>>
    /\ eval_score = 0
    /\ eval_signals = <<>>
    /\ llm_log = <<>>
    /\ eval_result = <<>>

CacheIdle ==
    /\ FILE_CONTENT_CACHE = <<>>
    /\ cache_tasks = <<>>

DirIdle ==
    /\ dir_items = <<>>
    /\ dir_results = <<>>
    /\ dir_md = <<>>

OtherIdle == EvalIdle /\ CacheIdle /\ DirIdle

QueryIdle ==
    /\ searchable_queries = <<>>
    /\ searchable_query = <<>>
    /\ search_requests = <<>>

IngestIdle ==
    /\ max_results = 0
    /\ per_page = 0
    /\ req_i = 0
    /\ page = 0
    /\ page_log = <<>>
    /\ search_log = <<>>
    /\ aborted = {}
    /\ in_flight = {}
    /\ meta_responses = <<>>
    /\ repositories = <<>>
    /\ all_repos = <<>>
    /\ state_repositories = <<>>

(***************************************************************************)
(* tools/filtering.py                                                      *)
(***************************************************************************)
\* Longest candidate list given to the Threshold Filter.
MaxCands == 3

FilterScores == {0, 300, 500}
Thresholds == {0, 300, 600}
HardwareSpecs == {None, Some(""), Some("cpu-only")}

\* A reranked candidate; the score field may be absent (the code reads it
\* with a default of 0.0).
FilterCandidates ==
    [full_name : Names, cross_encoder_score : FilterScores]
        \cup [full_name : Names]

\* Mutant: a candidate exactly at the threshold is dropped too.
BelowThreshold_Strict(ce_score, threshold) == ce_score <= threshold

\* if ce_score < agent_config.cross_encoder_threshold: continue
BelowThreshold(ce_score, threshold) == ce_score < threshold

\* The loop over state.reranked_candidates: keeps, in order, the candidates
\* that are not below the threshold.
ThresholdPass(cands, threshold) ==
    SelectSeq(cands,
              LAMBDA repo :
                  ~BelowThreshold(Get(repo, "cross_encoder_score", 0), threshold))

\* Mutant: no fallback to the full list.
SafetyNet_None(filtered, reranked) == filtered

\* Safety net: if everything was filtered out, keep all.
SafetyNet(filtered, reranked) ==
    IF filtered = <<>> THEN reranked ELSE filtered

\* Truthiness of state.hardware_spec (None and "" are falsy).
TruthySpec(hw) == hw.some /\ hw.v # ""
\* Truthiness of state.hardware_filtered (None and [] are falsy).
TruthyList(hwf) == hwf.some /\ hwf.v # <<>>

\* Mutant: the hardware list is intersected with the threshold-filtered list.
HardwareFilter_Intersect(filtered, hw, hwf) ==
    IF TruthySpec(hw) /\ TruthyList(hwf)
    THEN SelectSeq(hwf.v, LAMBDA r : \E i \in DOMAIN filtered : filtered[i] = r)
    ELSE filtered

\* Optional hardware filtering: the hardware list replaces the filtered one.
HardwareFilter(filtered, hw, hwf) ==
    IF TruthySpec(hw)
    THEN IF TruthyList(hwf) THEN hwf.v ELSE filtered
    ELSE filtered

\* The value threshold_filtering stores in state.filtered_candidates.
threshold_filtering_result(cands, threshold, hw, hwf) ==
    HardwareFilter(SafetyNet(ThresholdPass(cands, threshold), cands), hw, hwf)

InitFilter ==
    /\ pc = "filter"
    /\ OtherIdle
    /\ reranked_candidates \in SeqUpTo(FilterCandidates, MaxCands)
    /\ cross_encoder_threshold \in Thresholds
    /\ hardware_spec \in HardwareSpecs
    /\ hardware_filtered \in
           {None} \cup {Some(l) : l \in SeqUpTo([full_name : Names,
                                                 cross_encoder_score : {500}], 2)}
    /\ filtered_candidates = <<>>
    /\ MergeIdle
    /\ RerankIdle
    /\ DocIdle
    /\ QueryIdle
    /\ IngestIdle

threshold_filtering ==
    /\ pc = "filter"
    /\ filtered_candidates' =
           threshold_filtering_result(reranked_candidates, cross_encoder_threshold,
                                      hardware_spec, hardware_filtered)
    /\ pc' = "filter_done"
    /\ UNCHANGED <<reranked_candidates, cross_encoder_threshold, hardware_spec,
                   hardware_filtered>>
    /\ UNCHANGED <<mergeVars, rerankVars, docVars, queryVars, ingestVars, otherVars>>

NextFilter == threshold_filtering

SpecFilter == InitFilter /\ [][NextFilter]_vars

\* The candidates of the filter's input at or above the threshold, in input
\* order (a missing score counts as 0).
AtOrAboveThreshold ==
    SelectSeq(reranked_candidates,
              LAMBDA repo :
                  Get(repo, "cross_encoder_score", 0) >= cross_encoder_threshold)

\* The threshold-filtered list: the candidates at or above the threshold, or
\* the whole input when there is none.
ThresholdFiltered ==
    IF AtOrAboveThreshold # <<>> THEN AtOrAboveThreshold ELSE reranked_candidates

\* C3: a non-empty input of the Threshold Filter gives a non-empty output, for
\* every threshold and every combination of hardware constraint and
\* hardware-filtered list.
C3_NonEmptyFilter ==
    (pc = "filter_done" /\ reranked_candidates # <<>>)
        => filtered_candidates # <<>>

\* C3 witness: every candidate of a non-empty input is below the threshold, a
\* hardware constraint is present, and the filter has answered.
C3_Witness ==
    /\ pc = "filter_done"
    /\ Len(reranked_candidates) = MaxCands
    /\ AtOrAboveThreshold = <<>>
    /\ TruthySpec(hardware_spec)
    /\ hardware_filtered = Some(<<>>)
    /\ filtered_candidates = reranked_candidates

\* C7: with no hardware constraint the output is exactly the candidates at or
\* above the threshold, in input order, when there is one, and the whole input
\* in input order when there is none.
C7_ThresholdSubsetOrAll ==
    (pc = "filter_done" /\ ~TruthySpec(hardware_spec))
        => /\ AtOrAboveThreshold # <<>> => filtered_candidates = AtOrAboveThreshold
           /\ AtOrAboveThreshold = <<>> => filtered_candidates = reranked_candidates

\* C7 witness: no hardware constraint, a candidate exactly at the threshold is
\* kept and one below it is dropped.
C7_Witness ==
    /\ pc = "filter_done"
    /\ ~TruthySpec(hardware_spec)
    /\ Len(filtered_candidates) = 2
    /\ Len(reranked_candidates) = 3
    /\ \E i \in DOMAIN filtered_candidates :
           /\ "cross_encoder_score" \in DOMAIN filtered_candidates[i]
           /\ filtered_candidates[i]["cross_encoder_score"] = cross_encoder_threshold

\* C8: with a hardware constraint and a hardware-filtered list available (the
\* code's test: present and not empty) the output is exactly that list;
\* with no constraint, no list or an empty list it is the threshold-filtered
\* list.
C8_HardwareReplaces ==
    pc = "filter_done"
        => IF TruthySpec(hardware_spec) /\ TruthyList(hardware_filtered)
           THEN filtered_candidates = hardware_filtered.v
           ELSE filtered_candidates = ThresholdFiltered

\* C8 witness: the hardware list holds a candidate the threshold-filtered list
\* lacks and lacks one it holds, and it is the output.
C8_Witness ==
    /\ pc = "filter_done"
    /\ TruthySpec(hardware_spec)
    /\ TruthyList(hardware_filtered)
    /\ filtered_candidates = hardware_filtered.v
    /\ \E i \in DOMAIN hardware_filtered.v :
           \A j \in DOMAIN ThresholdFiltered :
               ThresholdFiltered[j] # hardware_filtered.v[i]
    /\ \E j \in DOMAIN ThresholdFiltered :
           \A i \in DOMAIN hardware_filtered.v :
               ThresholdFiltered[j] # hardware_filtered.v[i]

(***************************************************************************)
(* tools/merge_analysis.py                                                 *)
(***************************************************************************)
\* Longest candidate stream given to merge_analysis.
MaxStream == 2

ProjectTypes == {"All", "Personal Project", "Industry Standard"}

\* The vetted candidates of personal_analysis (the allow-list stream).
AllowRecs == [full_name : Names, src : {"personal"}, is_personal_gold : {TRUE}]
\* The activity stream: two values of the score, so that a full name met twice
\* in one stream is seen to be overwritten.
ActivityRecs == [full_name : Names, src : {"activity"}, activity_score : {1, 2}]
\* The quality stream.
QualityRecs == [full_name : Names, src : {"quality"}, code_quality_score : {7}]

\* Mutant: strict mode is never recognised.
IsPersonal_Never(ptype) == FALSE

\* is_personal = getattr(state, "project_type", "") == "Personal Project"
IsPersonal(ptype) == ptype = "Personal Project"

\* Mutant: on a key collision the earlier stream's fields win.
DictUpdate_KeepFirst(d, e) ==
    [k \in DOMAIN d \cup DOMAIN e |-> IF k \in DOMAIN d THEN d[k] ELSE e[k]]

\* dict.update: the fields of e overwrite or extend those of d.
DictUpdate(d, e) ==
    [k \in DOMAIN d \cup DOMAIN e |-> IF k \in DOMAIN e THEN e[k] ELSE d[k]]

\* The position of full name n in the insertion-ordered dict `merged` (0: absent).
KeyIndex(merged, n) ==
    IF \E i \in DOMAIN merged : merged[i]["full_name"] = n
    THEN CHOOSE i \in DOMAIN merged : merged[i]["full_name"] = n
    ELSE 0

\* merged[repo["full_name"]] = repo.copy() for every vetted candidate: a key
\* met again keeps its place and takes the later record.
RECURSIVE SeedAllowList(_, _)
SeedAllowList(merged, cands) ==
    IF cands = <<>> THEN merged
    ELSE LET repo == Head(cands)
             i == KeyIndex(merged, repo["full_name"])
         IN SeedAllowList(IF i = 0 THEN Append(merged, repo)
                          ELSE [merged EXCEPT ![i] = repo],
                          Tail(cands))

\* One iteration of merge_stream's loop.
MergeRepo(merged, repo, is_personal) ==
    LET i == KeyIndex(merged, repo["full_name"])
    IN IF i # 0 THEN [merged EXCEPT ![i] = DictUpdate(@, repo)]
       ELSE IF is_personal THEN merged
       ELSE Append(merged, repo)

RECURSIVE merge_stream(_, _, _)
merge_stream(merged, stream_candidates, is_personal) ==
    IF stream_candidates = <<>> THEN merged
    ELSE merge_stream(MergeRepo(merged, Head(stream_candidates), is_personal),
                      Tail(stream_candidates), is_personal)

\* Mutant: the streams are merged as in union mode and the allow-list is
\* applied to the result only.
merge_analysis_result_FilterOnly(ptype, filtered, activity, quality) ==
    LET merged_list == merge_stream(merge_stream(<<>>, activity, FALSE),
                                    quality, FALSE)
    IN IF IsPersonal(ptype)
       THEN SelectSeq(merged_list, LAMBDA r : r["full_name"] \in KeySet(filtered))
       ELSE merged_list

\* The list merge_analysis stores in state.filtered_candidates and returns.
merge_analysis_result(ptype, filtered, activity, quality) ==
    LET is_personal == IsPersonal(ptype)
        allowed_full_names == KeySet(filtered)
        seeded == IF is_personal THEN SeedAllowList(<<>>, filtered) ELSE <<>>
        merged_list == merge_stream(merge_stream(seeded, activity, is_personal),
                                    quality, is_personal)
    IN IF is_personal
       THEN SelectSeq(merged_list, LAMBDA r : r["full_name"] \in allowed_full_names)
       ELSE merged_list

InitMerge ==
    /\ pc = "merge"
    /\ OtherIdle
    /\ project_type \in ProjectTypes
    /\ filtered_candidates \in SeqUpTo(AllowRecs, MaxStream)
    /\ activity_candidates \in SeqUpTo(ActivityRecs, MaxStream)
    /\ quality_candidates \in SeqUpTo(QualityRecs, MaxStream)
    /\ allow_list = filtered_candidates
    /\ reranked_candidates = <<>>
    /\ cross_encoder_threshold = 0
    /\ hardware_spec = None
    /\ hardware_filtered = None
    /\ RerankIdle
    /\ DocIdle
    /\ QueryIdle
    /\ IngestIdle

merge_analysis ==
    /\ pc = "merge"
    /\ filtered_candidates' =
           merge_analysis_result(project_type, filtered_candidates,
                                 activity_candidates, quality_candidates)
    /\ pc' = "merge_done"
    /\ UNCHANGED <<reranked_candidates, cross_encoder_threshold, hardware_spec,
                   hardware_filtered>>
    /\ UNCHANGED <<mergeVars, rerankVars, docVars, queryVars, ingestVars, otherVars>>

NextMerge == merge_analysis

SpecMerge == InitMerge /\ [][NextMerge]_vars

\* C5: in Personal Project mode the full names of merge_analysis's output are
\* among those of the allow-list stream, whatever the activity and quality
\* streams hold.
C5_AllowListSubset ==
    (pc = "merge_done" /\ project_type = "Personal Project")
        => KeySet(filtered_candidates) \subseteq KeySet(allow_list)

\* C5 witness: Personal Project mode, both other streams carry a full name the
\* allow list lacks, and an admitted candidate was updated by a stream.
C5_Witness ==
    /\ pc = "merge_done"
    /\ project_type = "Personal Project"
    /\ \E i \in DOMAIN activity_candidates :
           activity_candidates[i]["full_name"] \notin KeySet(allow_list)
    /\ \E i \in DOMAIN quality_candidates :
           quality_candidates[i]["full_name"] \notin KeySet(allow_list)
    /\ \E i \in DOMAIN filtered_candidates :
           "code_quality_score" \in DOMAIN filtered_candidates[i]

\* The activity stream followed by the quality stream: the order of merging.
UnionStreams == activity_candidates \o quality_candidates

\* The last record of the streams, in merge order, that carries full name n
\* and field k.
LastWriter(n, k) ==
    LET I == {i \in DOMAIN UnionStreams :
                 UnionStreams[i]["full_name"] = n /\ k \in DOMAIN UnionStreams[i]}
    IN UnionStreams[CHOOSE i \in I : \A j \in I : j <= i]

\* C9: in union mode the output has exactly one record per full name of any
\* stream, carrying every field any of its records carries, each with the
\* value of the latest record that has it (quality over activity).
C9_UnionMerge ==
    (pc = "merge_done" /\ project_type # "Personal Project")
        => /\ KeySet(filtered_candidates) = KeySet(UnionStreams)
           /\ Len(filtered_candidates) = Cardinality(KeySet(UnionStreams))
           /\ \A i \in DOMAIN filtered_candidates :
                  LET r == filtered_candidates[i]
                      n == r["full_name"]
                  IN /\ DOMAIN r =
                            UNION {DOMAIN UnionStreams[j] :
                                       j \in {x \in DOMAIN UnionStreams :
                                                 UnionStreams[x]["full_name"] = n}}
                     /\ \A k \in DOMAIN r : r[k] = LastWriter(n, k)[k]

\* C9 witness: union mode, one full name in both streams (a collision) and one
\* in the activity stream alone, both kept.
C9_Witness ==
    /\ pc = "merge_done"
    /\ project_type = "All"
    /\ Len(filtered_candidates) = 2
    /\ \E i \in DOMAIN filtered_candidates :
           /\ filtered_candidates[i]["src"] = "quality"
           /\ "activity_score" \in DOMAIN filtered_candidates[i]
    /\ \E i \in DOMAIN filtered_candidates :
           filtered_candidates[i]["full_name"] \notin KeySet(quality_candidates)

(***************************************************************************)
(* tools/cross_encoder_reranking.py                                        *)
(*                                                                         *)
(* A document is modelled by its length in characters; the cross-encoder   *)
(* is an external model, so each prediction is a free choice.              *)
(***************************************************************************)
\* Longest semantic ranking given to the reranker with every combination of
\* the documentation profiles, and with the sparse profiles as well.
MaxRerank == 3
MaxSparse == 2

\* state.semantic_ranked[:100]
RERANK_WINDOW == 100
CHUNK_SIZE == 2000
MAX_DOC_LENGTH == 5000
MIN_DOC_LENGTH == 200
LOW_DOC_THRESHOLD == 400
\* penalty = 5.0
LOW_DOC_PENALTY == 5000

\* What the cross-encoder may answer for one (query, passage) pair.
RawScores == {-3000, 6000}
TopNs == {0, 1, 2, 10}

\* The documentation a candidate may carry: the length of combined_doc and the
\* two reported sizes.  The placeholder text with no documentation, a bundle
\* at the ingestion caps, and a long document that is cut at MAX_DOC_LENGTH.
DocProfiles ==
    { [combined_doc |-> 27,   readme_size |-> 0,    arch_size |-> 0],
      [combined_doc |-> 1038, readme_size |-> 516,  arch_size |-> 514],
      [combined_doc |-> 7000, readme_size |-> 5000, arch_size |-> 2000] }

\* Further profiles, met in rankings of one or two candidates: both sizes
\* small but not zero, and one size only at or above LOW_DOC_THRESHOLD.
SparseProfiles ==
    { [combined_doc |-> 91,  readme_size |-> 50,  arch_size |-> 30],
      [combined_doc |-> 527, readme_size |-> 516, arch_size |-> 0],
      [combined_doc |-> 514, readme_size |-> 0,   arch_size |-> 514] }

\* The profile of the i-th entry of the long ranking.
LongProfile(i) ==
    CASE i % 3 = 0 -> [combined_doc |-> 27,   readme_size |-> 0,    arch_size |-> 0]
      [] i % 3 = 1 -> [combined_doc |-> 1038, readme_size |-> 516,  arch_size |-> 514]
      [] i % 3 = 2 -> [combined_doc |-> 91,   readme_size |-> 50,   arch_size |-> 30]

\* floor(1000 * log10(n)) at the arguments the model uses.
Log10Milli(n) ==
    CASE n = 1    -> 0
      [] n = 31   -> 1491
      [] n = 51   -> 1707
      [] n = 515  -> 2711
      [] n = 517  -> 2713
      [] n = 2001 -> 3301
      [] n = 5001 -> 3699

MinOf(S) == CHOOSE x \in S : \A y \in S : x <= y
MaxOf(S) == CHOOSE x \in S : \A y \in S : y <= x
RECURSIVE SumSeq(_)
SumSeq(q) == IF q = <<>> THEN 0 ELSE Head(q) + SumSeq(Tail(q))
\* q[:n]
Take(q, n) == SubSeq(q, 1, IF n < Len(q) THEN n ELSE Len(q))

\* The i-th candidate of a semantic ranking.
RankedCandidate(i, profile) ==
    [full_name |-> "o/r" \o ToString(i),
     combined_doc |-> profile.combined_doc,
     readme_size |-> profile.readme_size,
     arch_size |-> profile.arch_size]

\* doc[:MAX_DOC_LENGTH]
CapDoc(len) == IF len > MAX_DOC_LENGTH THEN MAX_DOC_LENGTH ELSE len

\* len(split_text(doc)): the pieces of range(0, len(doc), CHUNK_SIZE).
NumChunks(len) == (len + CHUNK_SIZE - 1) \div CHUNK_SIZE

\* The number of pairs handed to cross_encoder.predict for a candidate.
NumPairs(candidate) ==
    LET len == CapDoc(Get(candidate, "combined_doc", 0))
    IN IF len < MIN_DOC_LENGTH THEN 1 ELSE NumChunks(len)

\* What predict may do for a candidate: raise, or a score per pair.
Predictions(candidate) ==
    {[ok |-> FALSE, scores |-> <<>>]}
        \cup {[ok |-> TRUE, scores |-> q] :
                  q \in [1..NumPairs(candidate) -> RawScores]}

\* What predict does over a whole batch.  For a batch of at most MaxRerank
\* candidates every combination; for a longer one three runs, in which the
\* i-th call raises or answers by the remainder of i + k.
PredictionRuns(candidates) ==
    IF Len(candidates) <= MaxRerank
    THEN {preds \in [DOMAIN candidates ->
                        UNION {Predictions(candidates[i]) : i \in DOMAIN candidates}] :
             \A i \in DOMAIN preds : preds[i] \in Predictions(candidates[i])}
    ELSE {[i \in DOMAIN candidates |->
              CASE (i + k) % 3 = 0 -> [ok |-> FALSE, scores |-> <<>>]
                [] (i + k) % 3 = 1 ->
                       [ok |-> TRUE,
                        scores |-> [j \in 1..NumPairs(candidates[i]) |-> -3000]]
                [] (i + k) % 3 = 2 ->
                       [ok |-> TRUE,
                        scores |-> [j \in 1..NumPairs(candidates[i]) |-> 6000]]] :
             k \in 0..2}

\* The score of the first loop: the single pair's score for a short document,
\* 0.5 * max + 0.5 * mean over the chunks of a longer one, 0.0 on an exception.
RawScore(candidate, pred) ==
    LET len == CapDoc(Get(candidate, "combined_doc", 0))
        scores == pred.scores
    IN IF ~pred.ok THEN 0
       ELSE IF len < MIN_DOC_LENGTH THEN scores[1]
       ELSE (MaxOf({scores[i] : i \in DOMAIN scores})
                 + SumSeq(scores) \div Len(scores)) \div 2

\* boost = 0.5 * (log10(r_size + 1) + log10(a_size + 1))
Boost(r_size, a_size) == (Log10Milli(r_size + 1) + Log10Milli(a_size + 1)) \div 2

\* Mutant: the penalty is taken when either size is small.
Penalty_Either(r_size, a_size) ==
    IF r_size < LOW_DOC_THRESHOLD \/ a_size < LOW_DOC_THRESHOLD
    THEN LOW_DOC_PENALTY ELSE 0

\* penalty = 5.0 when both sizes are below LOW_DOC_THRESHOLD, else 0.0
Penalty(r_size, a_size) ==
    IF r_size < LOW_DOC_THRESHOLD /\ a_size < LOW_DOC_THRESHOLD
    THEN LOW_DOC_PENALTY ELSE 0

\* The second loop: original_score + boost - penalty.
AdjustedScore(candidate, score) ==
    LET r_size == Get(candidate, "readme_size", 0)
        a_size == Get(candidate, "arch_size", 0)
    IN score + Boost(r_size, a_size) - Penalty(r_size, a_size)

\* Mutant: negative scores are left as they are.
ShiftAmount_None(min_score) == 0

\* shift = -min_score if min_score < 0
ShiftAmount(min_score) == IF min_score < 0 THEN -min_score ELSE 0

\* Mutant: the first exception ends the scoring; the candidates after it keep
\* the score 0.
RawScoresOf_StopAtFailure(candidates, preds) ==
    [i \in DOMAIN candidates |->
        IF \E j \in 1..i : ~preds[j].ok THEN 0
        ELSE RawScore(candidates[i], preds[i])]

\* The scores of the first loop, candidate by candidate.
RawScoresOf(candidates, preds) ==
    [i \in DOMAIN candidates |-> RawScore(candidates[i], preds[i])]

\* The scores after the second loop.
AdjustedScoresOf(candidates, raw) ==
    [i \in DOMAIN candidates |-> AdjustedScore(candidates[i], raw[i])]

\* Mutant: only the negative scores are raised, each to zero.
PostProcess_Clamp(all_scores) ==
    [i \in DOMAIN all_scores |-> IF all_scores[i] < 0 THEN 0 ELSE all_scores[i]]

\* "Postprocessing: Shift all scores upward if any are negative."
PostProcess(all_scores) ==
    IF all_scores = <<>> THEN <<>>
    ELSE LET min_score == MinOf({all_scores[i] : i \in DOMAIN all_scores})
         IN [i \in DOMAIN all_scores |-> all_scores[i] + ShiftAmount(min_score)]

\* The candidates after scoring, adjustment and the global shift: the dicts of
\* the batch as cross_encoder_rerank_func leaves them.
ScoredBatch(candidates, preds) ==
    LET final == PostProcess(AdjustedScoresOf(candidates,
                                              RawScoresOf(candidates, preds)))
    IN [i \in DOMAIN candidates |->
           [k \in DOMAIN candidates[i] \cup {"cross_encoder_score"} |->
               IF k = "cross_encoder_score" THEN final[i]
               ELSE candidates[i][k]]]

\* The place of q[i] in sorted(q, key=score, reverse=True).  Python's sort is
\* stable and reverse=True keeps the order of equal keys, so q[i] comes
\* after every element with a higher score and after the earlier elements
\* with its own score.
SortedPlace(q, i) ==
    1 + Cardinality({j \in DOMAIN q :
                        \/ q[j]["cross_encoder_score"] > q[i]["cross_encoder_score"]
                        \/ /\ q[j]["cross_encoder_score"] = q[i]["cross_encoder_score"]
                           /\ j < i})

\* sorted(candidates, key=score, reverse=True)
SortedDesc(q) ==
    [k \in DOMAIN q |-> q[CHOOSE i \in DOMAIN q : SortedPlace(q, i) = k]]

\* Mutant: the top_n of the batch in the order of the semantic ranking.
cross_encoder_rerank_func_Unsorted(candidates, preds, top_n) ==
    IF candidates = <<>> THEN <<>>
    ELSE Take(ScoredBatch(candidates, preds), top_n)

\* cross_encoder_rerank_func: the top_n of the scored batch, best first.
cross_encoder_rerank_func(candidates, preds, top_n) ==
    IF candidates = <<>> THEN <<>>
    ELSE Take(SortedDesc(ScoredBatch(candidates, preds)), top_n)

FilterIdleInputs ==
    /\ cross_encoder_threshold = 0
    /\ hardware_spec = None
    /\ hardware_filtered = None
    /\ filtered_candidates = <<>>

InitRerank ==
    /\ pc = "rerank"
    /\ OtherIdle
    /\ \E profiles \in SeqUpTo(DocProfiles, MaxRerank)
                          \cup SeqUpTo(DocProfiles \cup SparseProfiles, MaxSparse)
                          \cup {[i \in 1..(RERANK_WINDOW + 1) |-> LongProfile(i)]} :
           semantic_ranked =
               [i \in DOMAIN profiles |-> RankedCandidate(i, profiles[i])]
    /\ cross_encoder_top_n \in TopNs
    /\ rerank_raw = <<>>
    /\ rerank_adjusted = <<>>
    /\ rerank_preds = <<>>
    /\ reranked_candidates = <<>>
    /\ FilterIdleInputs
    /\ MergeIdle
    /\ DocIdle
    /\ QueryIdle
    /\ IngestIdle

cross_encoder_reranking ==
    /\ pc = "rerank"
    /\ LET candidates_for_rerank == Take(semantic_ranked, RERANK_WINDOW)
       IN \E preds \in PredictionRuns(candidates_for_rerank) :
              /\ rerank_preds' = preds
              /\ rerank_raw' = RawScoresOf(candidates_for_rerank, preds)
              /\ rerank_adjusted' =
                     AdjustedScoresOf(candidates_for_rerank, rerank_raw')
              /\ semantic_ranked' =
                     ScoredBatch(candidates_for_rerank, preds)
                         \o SubSeq(semantic_ranked,
                                   Len(candidates_for_rerank) + 1,
                                   Len(semantic_ranked))
              /\ reranked_candidates' =
                     cross_encoder_rerank_func(candidates_for_rerank, preds,
                                               cross_encoder_top_n)
    /\ pc' = "rerank_done"
    /\ UNCHANGED <<cross_encoder_threshold, hardware_spec, hardware_filtered,
                   filtered_candidates, cross_encoder_top_n, mergeVars, docVars,
                   queryVars, ingestVars, otherVars>>

NextRerank == cross_encoder_reranking

SpecRerank == InitRerank /\ [][NextRerank]_vars

\* The scores of the scored batch, as post-processing left them.
BatchScores ==
    {semantic_ranked[i]["cross_encoder_score"] :
         i \in 1..(IF Len(semantic_ranked) < RERANK_WINDOW
                   THEN Len(semantic_ranked) ELSE RERANK_WINDOW)}

\* C4: after the reranker's post-processing the least cross_encoder_score of
\* the whole scored batch, top-n cut or not, is at least 0.
C4_ScoreShift ==
    (pc = "rerank_done" /\ semantic_ranked # <<>>) => MinOf(BatchScores) >= 0

\* C4 witness: a candidate was scored below zero (raw -3000, no documentation,
\* so -8000 after the penalty), the batch was shifted, and a candidate beyond
\* the top-n cut carries the score 0.
C4_Witness ==
    /\ pc = "rerank_done"
    /\ Len(semantic_ranked) > Len(reranked_candidates)
    /\ Len(reranked_candidates) > 0
    /\ MinOf(BatchScores) = 0
    /\ MaxOf(BatchScores) >= 8000
    /\ \A i \in DOMAIN reranked_candidates :
           reranked_candidates[i]["cross_encoder_score"] > 0

(***************************************************************************)
(* tools/github.py: fetch_repo_documentation                               *)
(***************************************************************************)
\* Most results gathered for one repository (markdown files and docs/ dirs).
MaxDocs == 3

MAX_README_SIZE == 500
MAX_ARCH_DOCS_SIZE == 500
MAX_TOTAL_DOC_SIZE == 1000
\* if remaining > 100
MIN_REMAINING == 100
\* len("\n\n"), and the "+ 4" the size check counts for it
SEPARATOR_LEN == 2
SEPARATOR_ALLOWANCE == 4
\* len("\n[... truncated]")
TRUNCATED_MARK_LEN == 16
\* len("\n[... content truncated to size limit]")
TOTAL_MARK_LEN == 38
\* len("# README\n")
README_HEADER_LEN == 9
\* len("No documentation available.")
PLACEHOLDER_LEN == 27

\* What fetch_readme_content may return: "" (absent or failed) or the text.
ReadmeTexts ==
    {EmptyText, Text(3, TRUE), Text(120, FALSE), Text(500, FALSE),
     Text(501, FALSE), Text(3000, FALSE)}

\* A gathered result: an exception, or the text of a file or of a directory.
GatherException == [exc |-> TRUE, text |-> EmptyText]
Fetched(t) == [exc |-> FALSE, text |-> t]
GatheredResults ==
    {GatherException, Fetched(EmptyText), Fetched(Text(3, TRUE)),
     Fetched(Text(90, FALSE)), Fetched(Text(300, FALSE)),
     Fetched(Text(404, FALSE)), Fetched(Text(900, FALSE))}

\* The accumulation loop over the gathered results, from doc_text on.
RECURSIVE AccumulateDocs(_, _)
AccumulateDocs(doc_text, results) ==
    IF results = <<>> THEN doc_text
    ELSE LET res == Head(results)
         IN IF res.exc \/ res.text.len = 0
            THEN AccumulateDocs(doc_text, Tail(results))
            ELSE LET new_size == doc_text.len + res.text.len + SEPARATOR_ALLOWANCE
                     remaining == MAX_ARCH_DOCS_SIZE - doc_text.len
                                      - SEPARATOR_ALLOWANCE
                 IN IF new_size <= MAX_ARCH_DOCS_SIZE
                    THEN AccumulateDocs(
                             [doc_text EXCEPT
                                  !.len = doc_text.len + SEPARATOR_LEN + res.text.len,
                                  !.blank = doc_text.blank /\ res.text.blank],
                             Tail(results))
                    ELSE IF remaining > MIN_REMAINING
                         THEN \* "\n\n" + res[:remaining] + "\n[... truncated]"; break
                              [doc_text EXCEPT
                                   !.len = doc_text.len + SEPARATOR_LEN
                                               + (IF res.text.len < remaining
                                                  THEN res.text.len ELSE remaining)
                                               + TRUNCATED_MARK_LEN,
                                   !.blank = FALSE,
                                   !.marked = TRUE]
                         ELSE \* break: res and what follows it are left out
                              [doc_text EXCEPT !.cut_unmarked = TRUE]

\* The README after "Truncate README if it exceeds limit".
TruncateReadme(readme) ==
    IF readme.len > MAX_README_SIZE
    THEN [readme EXCEPT !.len = MAX_README_SIZE + TRUNCATED_MARK_LEN,
                        !.blank = FALSE,
                        !.marked = TRUE]
    ELSE readme

\* combined = "# README\n" + readme + "\n\n" + doc_text, or doc_text alone.
Combine(readme, doc_text) ==
    IF readme.len > 0
    THEN [len |-> README_HEADER_LEN + readme.len + SEPARATOR_LEN + doc_text.len,
          blank |-> FALSE,
          marked |-> readme.marked \/ doc_text.marked,
          cut_unmarked |-> readme.cut_unmarked \/ doc_text.cut_unmarked]
    ELSE doc_text

\* "Final truncation if necessary": combined[:MAX_TOTAL_DOC_SIZE] and the
\* marker.  The end of combined, where doc_text may have left content out,
\* is cut off, and the new end has the marker.
TruncateTotal(combined) ==
    IF combined.len > MAX_TOTAL_DOC_SIZE
    THEN [len |-> MAX_TOTAL_DOC_SIZE + TOTAL_MARK_LEN, blank |-> FALSE,
          marked |-> TRUE, cut_unmarked |-> FALSE]
    ELSE combined

\* (final_doc, readme_size, arch_doc_size) of fetch_repo_documentation, given
\* the README fetched, whether the root listing was read, and the gathered
\* results.  A listing that fails leaves doc_text empty.
fetch_repo_documentation_result(readme_in, listing_ok, results) ==
    LET doc_text == IF listing_ok THEN AccumulateDocs(EmptyText, results)
                    ELSE EmptyText
        readme == TruncateReadme(readme_in)
        combined == TruncateTotal(Combine(readme, doc_text))
        final_doc == IF combined.blank
                     THEN [combined EXCEPT !.len = PLACEHOLDER_LEN, !.blank = FALSE]
                     ELSE combined
    IN <<final_doc, readme.len, doc_text.len>>

InitDoc ==
    /\ pc = "doc"
    /\ OtherIdle
    /\ readme_fetched \in ReadmeTexts
    /\ root_listing_ok \in BOOLEAN
    /\ doc_results \in SeqUpTo(GatheredResults, MaxDocs)
    /\ doc_return = <<EmptyText, 0, 0>>
    /\ TasksIdle
    /\ reranked_candidates = <<>>
    /\ FilterIdleInputs
    /\ MergeIdle
    /\ RerankIdle
    /\ QueryIdle
    /\ IngestIdle

fetch_repo_documentation ==
    /\ pc = "doc"
    /\ doc_return' = fetch_repo_documentation_result(readme_fetched, root_listing_ok,
                                                      doc_results)
    /\ pc' = "doc_done"
    /\ UNCHANGED <<readme_fetched, root_listing_ok, doc_results, taskVars>>
    /\ UNCHANGED <<filterVars, mergeVars, rerankVars, queryVars, ingestVars, otherVars>>

NextDoc == fetch_repo_documentation

SpecDoc == InitDoc /\ [][NextDoc]_vars

\* C2: for every candidate the reported readme_size is at most
\* MAX_README_SIZE, the reported arch_size at most MAX_ARCH_DOCS_SIZE and the
\* length of combined_doc at most MAX_TOTAL_DOC_SIZE.
C2_CapInvariant ==
    pc = "doc_done"
        => /\ doc_return[2] <= MAX_README_SIZE
           /\ doc_return[3] <= MAX_ARCH_DOCS_SIZE
           /\ doc_return[1].len <= MAX_TOTAL_DOC_SIZE

\* C2, cap by cap: each of the three is exceeded on its own.
C2_ReadmeCap == pc = "doc_done" => doc_return[2] <= MAX_README_SIZE
C2_ArchCap == pc = "doc_done" => doc_return[3] <= MAX_ARCH_DOCS_SIZE
C2_TotalCap == pc = "doc_done" => doc_return[1].len <= MAX_TOTAL_DOC_SIZE

\* What does hold: each size is within its cap plus the length of the
\* truncation marker appended after the cut.
DocSizesWithinCapPlusMarker ==
    pc = "doc_done"
        => /\ doc_return[2] <= MAX_README_SIZE + TRUNCATED_MARK_LEN
           /\ doc_return[3] <= MAX_ARCH_DOCS_SIZE + TRUNCATED_MARK_LEN - SEPARATOR_LEN
           /\ doc_return[1].len <= MAX_TOTAL_DOC_SIZE + TOTAL_MARK_LEN

\* C17: whenever fetch_repo_documentation has cut or left out fetched content
\* for a cap, the text it returns has a truncation marker where the content
\* is missing: no place where content was left out is without one.
C17_TruncationMarked ==
    pc = "doc_done" => ~doc_return[1].cut_unmarked

\* The case that breaks it, by its input alone: no README, a first markdown
\* file of 404 characters and a second of 300.  The first is taken whole
\* (406 with its separator), the second is left out, and the text returned
\* is those 406 characters with no marker.
C17_SilentOmission ==
    (/\ pc = "doc_done"
     /\ readme_fetched = EmptyText
     /\ root_listing_ok
     /\ doc_results = <<Fetched(Text(404, FALSE)), Fetched(Text(300, FALSE))>>)
        => doc_return[1].marked \/ doc_return[1].len >= 404 + 300

\* What does hold: a cut made by slicing (README, total, or an architecture
\* document with more than MIN_REMAINING characters of room) has its marker.
SlicedTextIsMarked ==
    pc = "doc_done"
        => /\ readme_fetched.len > MAX_README_SIZE => doc_return[1].marked
           /\ doc_return[1].len > MAX_TOTAL_DOC_SIZE => doc_return[1].marked
           /\ doc_return[3] > MAX_ARCH_DOCS_SIZE => doc_return[1].marked

(***************************************************************************)
(* tools/github.py: ingest_github_repos_async, the search requests         *)
(*                                                                         *)
(* A query string is a sequence of tokens, standing for their              *)
(* concatenation: words, the separator ":", a blank " " and the prefix     *)
(* "target-".  No word holds a separator, a blank or the prefix, so        *)
(* splitting, stripping and prefix tests on tokens are those on            *)
(* characters.                                                             *)
(***************************************************************************)
\* Most tokens of one query string.
MaxComboLen == 3

Tokens == {"kafka", "fintech", "python", "target-", ":", " "}

\* The second combo of a two-combo list.
SecondCombos ==
    { <<"fintech">>, <<"target-", "python", ":", "kafka">>, <<" ", ":">>,
      <<"kafka", ":", "target-", "python", ":", "target-">> }

\* Legacy strings as convert_searchable_query joins them from the tags of
\* the prompt: tag1:tag2[:target-language].
LegacyQueries ==
    { <<"kafka", ":", "target-", "python">>,
      <<"kafka", ":", "fintech", ":", "target-", "python">>,
      <<"kafka", ":", "fintech">> }

\* The string a token sequence stands for.
RECURSIVE Str(_)
Str(toks) == IF toks = <<>> THEN "" ELSE Head(toks) \o Str(Tail(toks))

\* str.split(sep): the pieces between the separators, empty ones included.
RECURSIVE Split(_, _)
Split(toks, sep) ==
    IF \A i \in DOMAIN toks : toks[i] # sep THEN <<toks>>
    ELSE LET i == CHOOSE k \in DOMAIN toks :
                      toks[k] = sep /\ \A j \in 1..(k - 1) : toks[j] # sep
         IN <<SubSeq(toks, 1, i - 1)>> \o Split(SubSeq(toks, i + 1, Len(toks)), sep)

\* str.strip()
RECURSIVE Strip(_)
Strip(toks) ==
    IF toks = <<>> THEN <<>>
    ELSE IF Head(toks) = " " THEN Strip(Tail(toks))
    ELSE IF toks[Len(toks)] = " " THEN Strip(SubSeq(toks, 1, Len(toks) - 1))
    ELSE toks

\* [p.strip() for p in s.split(":") if p.strip()]
StrippedParts(toks) ==
    LET pieces == Split(toks, ":")
        stripped == [i \in DOMAIN pieces |-> Strip(pieces[i])]
    IN SelectSeq(stripped, LAMBDA p : p # <<>>)

\* p.startswith("target-")
IsTargetTag(part) == part # <<>> /\ Head(part) = "target-"

\* p.split("target-")[-1]
TargetLanguage(part) ==
    LET pieces == Split(part, "target-") IN pieces[Len(pieces)]

\* query_combos: state.searchable_queries, or, when that is empty, the pieces
\* of the legacy state.searchable_query.
QueryCombos(queries, raw_q) ==
    IF queries # <<>> THEN queries
    ELSE IF raw_q # <<>> THEN StrippedParts(raw_q)
    ELSE <<>>

\* star_filter
StarFilter(ptype) ==
    IF ptype = "Personal Project" THEN " stars:5..500" ELSE " stars:>5"

\* target_language after the loop over the parts: that of the last target tag,
\* or None.
ComboLanguage(parts) ==
    LET tags == SelectSeq(parts, IsTargetTag)
    IN IF tags = <<>> THEN None ELSE Some(Str(TargetLanguage(tags[Len(tags)])))

\* search_terms after the loop over the parts.
ComboTerms(parts) == SelectSeq(parts, LAMBDA p : ~IsTargetTag(p))

\* Mutant: the language filter is left off.
FullQuery_NoLanguage(term, star_filter, language) == Str(term) \o star_filter

\* full_query = f"{term}{star_filter}" [+ f" language:{target_language}"]
FullQuery(term, star_filter, language) ==
    IF language.some /\ language.v # ""
    THEN Str(term) \o star_filter \o " language:" \o language.v
    ELSE Str(term) \o star_filter

\* The terms joined by blanks, as one AND-ed query would hold them.
RECURSIVE JoinTerms(_)
JoinTerms(terms) ==
    IF Len(terms) = 1 THEN terms[1]
    ELSE terms[1] \o <<" ">> \o JoinTerms(Tail(terms))

\* Mutant: the terms of a combo are AND-ed into one request.
ComboRequests_And(combo, star_filter) ==
    LET parts == StrippedParts(combo)
        terms == ComboTerms(parts)
    IN IF terms = <<>> THEN <<>>
       ELSE <<FullQuery(JoinTerms(terms), star_filter, ComboLanguage(parts))>>

\* The requests of one combo: one per search term.
ComboRequests(combo, star_filter) ==
    LET parts == StrippedParts(combo)
        terms == ComboTerms(parts)
    IN [i \in DOMAIN terms |-> FullQuery(terms[i], star_filter, ComboLanguage(parts))]

\* The loop over query_combos that fills search_requests.
RECURSIVE BuildSearchRequests(_, _)
BuildSearchRequests(combos, star_filter) ==
    IF combos = <<>> THEN <<>>
    ELSE ComboRequests(Head(combos), star_filter)
             \o BuildSearchRequests(Tail(combos), star_filter)

InitQuery ==
    /\ pc = "query"
    /\ OtherIdle
    /\ project_type \in ProjectTypes
    /\ \/ /\ searchable_queries \in
                {<<>>} \cup {<<c>> : c \in SeqUpTo(Tokens, MaxComboLen)}
                       \cup {<<c, d>> : c \in SeqUpTo(Tokens, MaxComboLen),
                                        d \in SecondCombos}
          /\ searchable_query = <<>>
       \/ /\ searchable_queries = <<>>
          /\ searchable_query \in SeqUpTo(Tokens, MaxComboLen) \cup LegacyQueries
    /\ search_requests = <<>>
    /\ activity_candidates = <<>>
    /\ quality_candidates = <<>>
    /\ allow_list = <<>>
    /\ reranked_candidates = <<>>
    /\ FilterIdleInputs
    /\ RerankIdle
    /\ DocIdle
    /\ IngestIdle

build_search_requests ==
    /\ pc = "query"
    /\ search_requests' =
           BuildSearchRequests(QueryCombos(searchable_queries, searchable_query),
                               StarFilter(project_type))
    /\ pc' = "query_done"
    /\ UNCHANGED <<searchable_queries, searchable_query>>
    /\ UNCHANGED <<filterVars, mergeVars, rerankVars, docVars, ingestVars, otherVars>>

NextQuery == build_search_requests

SpecQuery == InitQuery /\ [][NextQuery]_vars

\* The search terms of a combo: its non-blank colon-separated parts that are
\* not target tags, in order.
SearchTermsOf(combo) ==
    SelectSeq(StrippedParts(combo),
              LAMBDA p : ~(Len(p) > 0 /\ p[1] = "target-"))

\* The language a combo asks for, "" when it asks for none.  A combo of the
\* data model carries at most one target tag; of several the last one counts.
LanguageOf(combo) ==
    LET tags == SelectSeq(StrippedParts(combo),
                          LAMBDA p : Len(p) > 0 /\ p[1] = "target-")
    IN IF tags = <<>> THEN ""
       ELSE LET last == tags[Len(tags)]
                k == CHOOSE i \in DOMAIN last :
                         last[i] = "target-"
                             /\ \A j \in (i + 1)..Len(last) : last[j] # "target-"
            IN Str(SubSeq(last, k + 1, Len(last)))

\* The number of requests the combos before the j-th account for.
RECURSIVE RequestsBefore(_, _)
RequestsBefore(combos, j) ==
    IF j = 1 THEN 0
    ELSE RequestsBefore(combos, j - 1) + Len(SearchTermsOf(combos[j - 1]))

\* C6: a combo with k search terms gives exactly k search requests, one per
\* term in order: the term, then the star filter of the mode (" stars:5..500"
\* in Personal Project mode, " stars:>5" otherwise), then " language:<lang>"
\* if and only if the combo's target tag names a language.
C6_OneRequestPerTerm ==
    pc = "query_done"
        => LET combos == QueryCombos(searchable_queries, searchable_query)
               star == IF project_type = "Personal Project"
                       THEN " stars:5..500" ELSE " stars:>5"
           IN /\ Len(search_requests) = RequestsBefore(combos, Len(combos) + 1)
              /\ \A j \in DOMAIN combos :
                     \A t \in DOMAIN SearchTermsOf(combos[j]) :
                         search_requests[RequestsBefore(combos, j) + t] =
                             Str(SearchTermsOf(combos[j])[t]) \o star
                                 \o (IF LanguageOf(combos[j]) # ""
                                     THEN " language:" \o LanguageOf(combos[j])
                                     ELSE "")

\* C6 witness: the combo kafka:fintech with no language tag, outside Personal
\* Project mode, gave exactly the two requests of the scenario.
C6_Witness ==
    /\ pc = "query_done"
    /\ searchable_queries = << <<"kafka", ":", "fintech">> >>
    /\ project_type = "All"
    /\ search_requests = <<"kafka stars:>5", "fintech stars:>5">>

\* A combo with a language tag in Personal Project mode: every term's request
\* carries the band and the language.
C6_WitnessLanguage ==
    /\ pc = "query_done"
    /\ project_type = "Personal Project"
    /\ \E i \in DOMAIN search_requests :
           search_requests[i] = "kafka stars:5..500 language:python"

(***************************************************************************)
(* tools/github.py: ingest_github_repos_async, fetch_github_repositories   *)
(*                                                                         *)
(* One run of the ingestion: the search requests are executed one after    *)
(* the other, each page by page.  Every response of the search API is a    *)
(* free choice.  A candidate record keeps the fields the documentation     *)
(* fetch decides (combined_doc, readme_size, arch_size) and its full_name; *)
(* the fields copied from the search hit unchanged are left out.           *)
(***************************************************************************)
\* await asyncio.sleep(10)
BACKOFF_SECONDS == 10
\* await asyncio.sleep(3.0)
SEARCH_PAUSE_SECONDS == 3

\* (max_results, per_page): two pages of one hit, and one page of two hits
\* whose count is rounded up.
ResultConfigs == { <<2, 1>>, <<1, 2>> }

\* The inputs of a run: (searchable_queries, searchable_query).
IngestInputs ==
    { << <<>>, <<>> >>,
      << << <<"kafka">> >>, <<>> >>,
      << << <<"kafka", ":", "fintech">> >>, <<>> >>,
      << <<>>, <<"kafka", ":", "target-", "python">> >> }

IngestProjectTypes == {"All", "Personal Project"}

\* num_pages = max_results // per_page, plus one if there is a remainder
NumPages(maxres, perpage) ==
    (maxres \div perpage) + (IF maxres % perpage # 0 THEN 1 ELSE 0)

\* What gather returns for one hit's fetch_repo_documentation: an exception,
\* or its result (here for a README over the cap and nothing else).
DocException == [exc |-> TRUE, doc |-> <<EmptyText, 0, 0>>]
DocFetched ==
    [exc |-> FALSE,
     doc |-> fetch_repo_documentation_result(Text(501, FALSE), TRUE, <<>>)]
\* Its result when the README and the root listing could not be fetched: the
\* requests' errors are caught inside and the placeholder is returned.
DocUnavailable ==
    [exc |-> FALSE, doc |-> fetch_repo_documentation_result(EmptyText, FALSE, <<>>)]
DocOutcomes == {DocException, DocFetched, DocUnavailable}

\* A search hit together with the outcome of its documentation fetch.
Hit(name, outcome) == [full_name |-> name, doc |-> outcome]
Hits ==
    {Hit("o/a", DocFetched), Hit("o/a", DocException), Hit("o/b", DocFetched),
     Hit("o/b", DocUnavailable)}

\* A full_name that the JSON of a hit gives as an array: item.get returns a
\* list, which Python cannot hash.  The documentation fetch for such a name
\* meets no repository and returns the placeholder.
UnhashableName == "['o', 'a']"
Hashable(name) == name # UnhashableName

\* The "items" a page of the search may hold.
PageItems(perpage) ==
    {q \in {<<>>} \cup {<<h>> : h \in Hits}
               \cup { <<Hit(UnhashableName, DocUnavailable)>> }
               \cup { <<[full_name |-> "o/a", doc |-> DocFetched],
                        [full_name |-> "o/b", doc |-> DocException]>>,
                      <<[full_name |-> "o/a", doc |-> DocException],
                        [full_name |-> "o/a", doc |-> DocFetched]>> } :
         Len(q) <= perpage}

RATE_LIMIT_STATUSES == {403, 429}

\* What mcp_adapter.fetch may do for a search page: raise, answer 200 with
\* items, or answer an error status whose body is JSON or is not.
Responses(perpage) ==
    {[raised |-> TRUE, status |-> 0, json_ok |-> FALSE, items |-> <<>>]}
        \cup {[raised |-> FALSE, status |-> 200, json_ok |-> TRUE, items |-> q] :
                  q \in PageItems(perpage)}
        \cup {[raised |-> FALSE, status |-> 500, json_ok |-> TRUE, items |-> <<>>]}
        \cup {[raised |-> FALSE, status |-> st, json_ok |-> j, items |-> <<>>] :
                  st \in RATE_LIMIT_STATUSES, j \in BOOLEAN}

\* The entries of page_log.
FetchEvent(resp) ==
    [ev |-> "fetch", raised |-> resp.raised, status |-> resp.status,
     json_ok |-> resp.json_ok, items |-> resp.items]
SleepEvent(secs) == [ev |-> "sleep", secs |-> secs]

\* The entries of search_log: the call of fetch_github_repositories for the
\* i-th search request begins, and it has returned.
StartEvent(i) == [ev |-> "start", req |-> i]
EndEvent(i, n) == [ev |-> "end", req |-> i, kept |-> n]

\* Mutant: a rate-limited page is not retried.
NeedsRetry_Never(resp) == FALSE

\* if response.status_code in [403, 429]: back off and fetch again
NeedsRetry(resp) == ~resp.raised /\ resp.status \in RATE_LIMIT_STATUSES

\* Mutant: a page that is still rate limited is skipped like any other error.
Disposition_SkipPage(resp) ==
    IF resp.raised THEN "continue"
    ELSE IF resp.status # 200 THEN "continue"
    ELSE IF resp.items = <<>> THEN "continue"
    ELSE "append"

\* What the loop body does with the response it ends up with: "break",
\* "continue", or "append" the page's hits.  Logging a non-200 response reads
\* its JSON body; if that raises, the except clause continues.
Disposition(resp) ==
    IF resp.raised THEN "continue"
    ELSE IF resp.status # 200
         THEN IF ~resp.json_ok THEN "continue"
              ELSE IF resp.status \in RATE_LIMIT_STATUSES THEN "break"
              ELSE "continue"
    ELSE IF resp.items = <<>> THEN "continue"
    ELSE "append"

\* The record appended for a hit and its gathered documentation.
RepoRecord(hit) ==
    IF hit.doc.exc
    THEN [full_name |-> hit.full_name, combined_doc |-> EmptyText,
          readme_size |-> 0, arch_size |-> 0]
    ELSE [full_name |-> hit.full_name, combined_doc |-> hit.doc.doc[1],
          readme_size |-> hit.doc.doc[2], arch_size |-> hit.doc.doc[3]]

\* Mutant: nothing is dropped.
Deduplicate_KeepAll(repos) == repos

\* The "Deduplicate" loop: a record is kept unless its full name is in `seen`.
RECURSIVE DedupFrom(_, _)
DedupFrom(repos, seen) ==
    IF repos = <<>> THEN <<>>
    ELSE LET repo == Head(repos)
         IN IF repo["full_name"] \notin seen
            THEN <<repo>> \o DedupFrom(Tail(repos), seen \cup {repo["full_name"]})
            ELSE DedupFrom(Tail(repos), seen)

\* `repo["full_name"] not in seen` raises TypeError for a full name that
\* cannot be hashed; the loop is in no try block.
DedupRaises(repos) == \E i \in DOMAIN repos : ~Hashable(repos[i]["full_name"])

\* Mutant: of the records with one full name the last is kept.
Reversed(q) == [i \in DOMAIN q |-> q[Len(q) + 1 - i]]
Deduplicate_LastWins(repos) == Reversed(DedupFrom(Reversed(repos), {}))

\* unique_repos
Deduplicate(repos) == DedupFrom(repos, {})

\* The keys of meta, in the order fetch_simple_metadata requests them.
MetaKeys == <<"branch_count", "pr_count", "contributors_count", "commit_count">>

\* What a metadata request may meet: the fetch raises, a status that is not
\* 200, or a 200 with a JSON list of n entries.
MetaRaised == [raised |-> TRUE, status |-> 0, n |-> 0]
MetaStatus(st, n) == [raised |-> FALSE, status |-> st, n |-> n]

\* The four requests of one repository, as the model lets them go.  A
\* coroutine that ends with an exception of its own (the gather returns it,
\* no dict) is the sequence marked "cancelled".
MetaRuns ==
    { [cancelled |-> FALSE,
       resps |-> <<MetaStatus(200, 2), MetaStatus(200, 1), MetaStatus(200, 1),
                   MetaStatus(200, 40)>>],
      [cancelled |-> FALSE,
       resps |-> <<MetaStatus(200, 2), MetaStatus(403, 0), MetaRaised,
                   MetaStatus(200, 40)>>],
      [cancelled |-> TRUE,
       resps |-> <<MetaStatus(200, 2), MetaStatus(200, 1), MetaStatus(200, 1),
                   MetaStatus(200, 40)>>] }

\* The request at which the try block is left, or 5 if it is not.
FirstRaise(resps) ==
    IF \E k \in DOMAIN resps : resps[k].raised
    THEN CHOOSE k \in DOMAIN resps :
             resps[k].raised /\ \A j \in 1..(k - 1) : ~resps[j].raised
    ELSE Len(resps) + 1

\* fetch_simple_metadata: meta starts at zero; each request that answers 200
\* sets its count; an exception ends the requests and meta is returned as it
\* is.
fetch_simple_metadata(resps) ==
    [k \in {MetaKeys[i] : i \in DOMAIN MetaKeys} |->
        LET i == CHOOSE j \in DOMAIN MetaKeys : MetaKeys[j] = k
        IN IF i < FirstRaise(resps) /\ resps[i].status = 200
           THEN resps[i].n
           ELSE 0]

\* What gather returns for one fetch_simple_metadata: something that is no
\* dict, or the dict of counts.
NoMeta == [is_dict |-> FALSE, branch_count |-> 0, pr_count |-> 0,
           contributors_count |-> 0, commit_count |-> 0]
GatheredMeta(run) ==
    IF run.cancelled THEN NoMeta
    ELSE [k \in {"is_dict"} \cup DOMAIN fetch_simple_metadata(run.resps) |->
             IF k = "is_dict" THEN TRUE ELSE fetch_simple_metadata(run.resps)[k]]
MetaOutcomes == {GatheredMeta(run) : run \in MetaRuns}

\* repo.update(meta) if meta is a dict
Enriched(repo, meta) ==
    IF meta.is_dict
    THEN [k \in DOMAIN repo \cup (DOMAIN meta \ {"is_dict"}) |->
             IF k \in DOMAIN meta THEN meta[k] ELSE repo[k]]
    ELSE repo

InitIngest ==
    /\ pc = "ingest"
    /\ OtherIdle
    /\ \E input \in IngestInputs :
           /\ searchable_queries = input[1]
           /\ searchable_query = input[2]
    /\ project_type \in IngestProjectTypes
    /\ \E cfg \in ResultConfigs :
           /\ max_results = cfg[1]
           /\ per_page = cfg[2]
    /\ search_requests = <<>>
    /\ req_i = 0
    /\ page = 0
    /\ page_log = <<>>
    /\ search_log = <<>>
    /\ aborted = {}
    /\ in_flight = {}
    /\ meta_responses = <<>>
    /\ repositories = <<>>
    /\ all_repos = <<>>
    /\ state_repositories = <<>>
    /\ activity_candidates = <<>>
    /\ quality_candidates = <<>>
    /\ allow_list = <<>>
    /\ reranked_candidates = <<>>
    /\ FilterIdleInputs
    /\ RerankIdle
    /\ DocIdle

runInputs ==
    <<filterVars, mergeVars, rerankVars, docVars, searchable_queries,
      searchable_query, max_results, per_page, otherVars>>
ingestFrame == <<runInputs, meta_responses>>

\* The call fetch_github_repositories(search_requests[i], ...) begins, after
\* the events `before`.
EnterSearch(i, before) ==
    /\ search_log' = Append(search_log \o before, StartEvent(i))
    /\ req_i' = i
    /\ page' = 1
    /\ page_log' = <<>>
    /\ repositories' = <<>>
    /\ pc' = IF NumPages(max_results, per_page) >= 1 THEN "page" ELSE "end_search"

\* The loop over pages_to_fetch moves on.
NextPage ==
    IF page < NumPages(max_results, per_page)
    THEN page' = page + 1 /\ pc' = "page"
    ELSE page' = page /\ pc' = "end_search"

\* Mutant: a hit whose documentation fetch raised gets no record.
PageRecords_DropFailed(items) ==
    LET ok == SelectSeq(items, LAMBDA h : ~h.doc.exc)
    IN [i \in DOMAIN ok |-> RepoRecord(ok[i])]

\* The records appended for the hits of a page, in the order of the hits.
PageRecords(items) == [i \in DOMAIN items |-> RepoRecord(items[i])]

\* Mutant: a search that is blocked returns nothing of what it had collected.
Handle_DropOnBreak(resp) ==
    CASE Disposition(resp) = "break" ->
             /\ pc' = "end_search"
             /\ aborted' = aborted \cup {req_i}
             /\ repositories' = <<>>
             /\ UNCHANGED page
      [] Disposition(resp) = "continue" ->
             /\ NextPage
             /\ UNCHANGED <<repositories, aborted>>
      [] Disposition(resp) = "append" ->
             /\ repositories' = repositories \o PageRecords(resp.items)
             /\ NextPage
             /\ UNCHANGED aborted

\* The rest of the loop body, once the response to act on is there.
Handle(resp) ==
    CASE Disposition(resp) = "break" ->
             /\ pc' = "end_search"
             /\ aborted' = aborted \cup {req_i}
             /\ UNCHANGED <<page, repositories>>
      [] Disposition(resp) = "continue" ->
             /\ NextPage
             /\ UNCHANGED <<repositories, aborted>>
      [] Disposition(resp) = "append" ->
             /\ repositories' = repositories \o PageRecords(resp.items)
             /\ NextPage
             /\ UNCHANGED aborted

\* ingest_github_repos_async up to the first search.
start_ingest ==
    /\ pc = "ingest"
    /\ search_requests' =
           BuildSearchRequests(QueryCombos(searchable_queries, searchable_query),
                               StarFilter(project_type))
    /\ all_repos' = <<>>
    /\ IF search_requests' = <<>>
       THEN pc' = "dedup"
            /\ UNCHANGED <<req_i, page, page_log, search_log, repositories>>
       ELSE EnterSearch(1, <<>>)
    /\ UNCHANGED <<aborted, in_flight, state_repositories, ingestFrame>>

\* response = await mcp_adapter.fetch(url, ...): the request for the page is
\* sent and the coroutine waits for it.
issue_page ==
    /\ pc = "page"
    /\ in_flight' = in_flight \cup {<<req_i, page>>}
    /\ pc' = "page_wait"
    /\ UNCHANGED <<search_requests, req_i, page, page_log, search_log, aborted,
                   repositories, all_repos, state_repositories, ingestFrame>>

\* The first fetch of a page returns, and the loop body if it needs no retry.
search_page ==
    /\ pc = "page_wait"
    /\ in_flight' = in_flight \ {<<req_i, page>>}
    /\ \E resp \in Responses(per_page) :
           /\ page_log' = Append(page_log, <<FetchEvent(resp)>>)
           /\ IF NeedsRetry(resp)
              THEN pc' = "backoff" /\ UNCHANGED <<page, repositories, aborted>>
              ELSE Handle(resp)
    /\ UNCHANGED <<search_requests, req_i, search_log, all_repos,
                   state_repositories, ingestFrame>>

\* "Backing off for 10s": await asyncio.sleep(10), then the request for the
\* page is sent again.
backoff ==
    /\ pc = "backoff"
    /\ page_log' = [page_log EXCEPT ![Len(page_log)] =
                        Append(@, SleepEvent(BACKOFF_SECONDS))]
    /\ in_flight' = in_flight \cup {<<req_i, page>>}
    /\ pc' = "retry"
    /\ UNCHANGED <<search_requests, req_i, page, search_log, aborted, repositories,
                   all_repos, state_repositories, ingestFrame>>

\* The second fetch of the page returns, and the loop body.
retry_page ==
    /\ pc = "retry"
    /\ in_flight' = in_flight \ {<<req_i, page>>}
    /\ \E resp \in Responses(per_page) :
           /\ page_log' = [page_log EXCEPT ![Len(page_log)] =
                               Append(@, FetchEvent(resp))]
           /\ Handle(resp)
    /\ UNCHANGED <<search_requests, req_i, search_log, all_repos,
                   state_repositories, ingestFrame>>

\* fetch_github_repositories returns: all_repos.extend(result).
end_search ==
    /\ pc = "end_search"
    /\ all_repos' = all_repos \o repositories
    /\ search_log' = Append(search_log, EndEvent(req_i, Len(repositories)))
    /\ pc' = IF req_i < Len(search_requests) THEN "pause" ELSE "dedup"
    /\ UNCHANGED <<search_requests, req_i, page, page_log, aborted, in_flight,
                   repositories, state_repositories, ingestFrame>>

\* Mutant: the next search starts at once.
pause_then_next_search_NoSleep ==
    /\ pc = "pause"
    /\ EnterSearch(req_i + 1, <<>>)
    /\ UNCHANGED <<search_requests, aborted, in_flight, all_repos,
                   state_repositories, ingestFrame>>

\* "Short sleep between searches", then the next search.
pause_then_next_search ==
    /\ pc = "pause"
    /\ EnterSearch(req_i + 1, <<SleepEvent(SEARCH_PAUSE_SECONDS)>>)
    /\ UNCHANGED <<search_requests, aborted, in_flight, all_repos,
                   state_repositories, ingestFrame>>

\* Deduplicate, enrich in Personal Project mode, return; or the exception of
\* the deduplication loop leaves ingest_github_repos_async.
dedup_and_return ==
    /\ pc = "dedup"
    /\ IF DedupRaises(all_repos)
       THEN /\ pc' = "ingest_raised"
            /\ UNCHANGED <<state_repositories, meta_responses>>
       ELSE /\ LET unique_repos == Deduplicate(all_repos)
               IN IF project_type = "Personal Project"
                  THEN \E runs \in [DOMAIN unique_repos -> MetaRuns] :
                           /\ meta_responses' = runs
                           /\ state_repositories' =
                                  [i \in DOMAIN unique_repos |->
                                      Enriched(unique_repos[i], GatheredMeta(runs[i]))]
                  ELSE /\ state_repositories' = unique_repos
                       /\ UNCHANGED meta_responses
            /\ pc' = "ingest_done"
    /\ UNCHANGED <<search_requests, req_i, page, page_log, search_log, aborted,
                   in_flight, repositories, all_repos, runInputs>>

NextIngest ==
    \/ start_ingest
    \/ issue_page
    \/ search_page
    \/ backoff
    \/ retry_page
    \/ end_search
    \/ pause_then_next_search
    \/ dedup_and_return

SpecIngest == InitIngest /\ [][NextIngest]_vars

\* C1: whatever the searches returned, the list ingest_github_repos_async
\* returns holds each full_name at most once.
C1_DedupInvariant ==
    pc = "ingest_done"
        => \A i, j \in DOMAIN state_repositories :
               state_repositories[i]["full_name"] = state_repositories[j]["full_name"]
                   => i = j

\* C1 witness: two search requests ran, the second returned a repository the
\* first had returned, and the run has ended with both full names.
C1_Witness ==
    /\ pc = "ingest_done"
    /\ Len(search_requests) = 2
    /\ Len(all_repos) >= 3
    /\ Len(repositories) >= 1
    /\ \E i \in 1..(Len(all_repos) - Len(repositories)) :
           all_repos[i]["full_name"] = repositories[1]["full_name"]
    /\ Len(state_repositories) = 2

\* The fetches among the events of a page.
FetchesOf(events) == SelectSeq(events, LAMBDA e : e.ev = "fetch")
\* The response was a 403 or a 429.
RateLimited(e) == e.ev = "fetch" /\ ~e.raised /\ e.status \in {403, 429}
\* The page was fetched twice and the second response was a failure too.
RetryFailed(events) ==
    /\ Len(FetchesOf(events)) = 2
    /\ (FetchesOf(events)[2].raised \/ FetchesOf(events)[2].status # 200)
\* The page was fetched twice and the second response was again a 403 or a
\* 429, with a JSON error body.
StillRateLimited(events) ==
    /\ Len(FetchesOf(events)) = 2
    /\ RateLimited(FetchesOf(events)[2])
    /\ FetchesOf(events)[2].json_ok
\* The search of the current request is over.
SearchOver == pc \in {"end_search", "pause", "dedup", "ingest_done"}

\* C10 as stated: a page whose retry failed as well is abandoned alone, and
\* the page after it is still requested.
C10_NextPageAfterFailedRetry ==
    SearchOver
        => \A p \in DOMAIN page_log :
               (RetryFailed(page_log[p]) /\ p < NumPages(max_results, per_page))
                   => p < Len(page_log)

\* C10 amended: a page answered 403 or 429 is fetched once more after one
\* sleep of BACKOFF_SECONDS and never a third time; a page is fetched twice
\* only for that reason; if the retry is again answered 403 or 429 (with a
\* JSON error body) the remaining pages of this search are not requested; if
\* the retry fails in any other way the next page is requested.
C10_RetryOnceThenStopSearch ==
    \A p \in DOMAIN page_log :
        LET events == page_log[p]
            complete == p < Len(page_log) \/ SearchOver
        IN /\ Len(events) \in 1..3
           /\ events[1].ev = "fetch"
           /\ Len(events) >= 2 =>
                  RateLimited(events[1]) /\ events[2] = SleepEvent(BACKOFF_SECONDS)
           /\ Len(events) = 3 => events[3].ev = "fetch"
           /\ (complete /\ RateLimited(events[1])) => Len(events) = 3
           /\ StillRateLimited(events) => p = Len(page_log)
           /\ (SearchOver /\ p = Len(page_log)
                   /\ p < NumPages(max_results, per_page))
                  => StillRateLimited(events)

\* C10 witness: the first page of two was answered 429, slept on, answered 403
\* on the retry, and the search ended without a request for the second page.
C10_Witness ==
    /\ pc = "end_search"
    /\ NumPages(max_results, per_page) = 2
    /\ Len(page_log) = 1
    /\ Len(page_log[1]) = 3
    /\ page_log[1][1].status = 429
    /\ page_log[1][2] = SleepEvent(BACKOFF_SECONDS)
    /\ page_log[1][3].status = 403

\* The retry failed otherwise (a 500) and the second page was requested.
C10_WitnessNextPage ==
    /\ SearchOver
    /\ Len(page_log) = 2
    /\ Len(page_log[1]) = 3
    /\ page_log[1][3].status = 500

\* The records a logged page added to `repositories`: those of its hits if the
\* response acted on was a 200, none otherwise.
Collected(events) ==
    LET last == events[Len(events)]
    IN IF last.ev = "fetch" /\ ~last.raised /\ last.status = 200
       THEN PageRecords(last.items)
       ELSE <<>>
\* The records of the pages logged so far, in page order.
RECURSIVE CollectedUpTo(_)
CollectedUpTo(n) ==
    IF n = 0 THEN <<>> ELSE CollectedUpTo(n - 1) \o Collected(page_log[n])
\* The "end" events of search_log.
EndsOf(log) == SelectSeq(log, LAMBDA e : e.ev = "end")
\* The number of records the searches that returned had kept.
RECURSIVE KeptTotal(_)
KeptTotal(ends) ==
    IF ends = <<>> THEN 0 ELSE Head(ends).kept + KeptTotal(Tail(ends))
\* fetch_github_repositories has returned and its result has been taken.
SearchReturned == pc \in {"pause", "dedup", "ingest_done"}

\* C11: a search whose retry is still answered 403 or 429 loses only its
\* remaining pages.  What its earlier pages collected is still in
\* `repositories` after the break, is returned and added to all_repos whole,
\* stays in all_repos to the end and is represented in the list returned;
\* and at the end of the run every search request has been started and has
\* returned, those after an aborted one included.
C11_HardFailureKeepsCollected ==
    /\ pc \notin {"ingest", "ingest_done"}
           => repositories = CollectedUpTo(Len(page_log))
    /\ (SearchOver /\ req_i \in aborted)
           => /\ StillRateLimited(page_log[Len(page_log)])
              /\ repositories = CollectedUpTo(Len(page_log) - 1)
    /\ Len(all_repos) = KeptTotal(EndsOf(search_log))
    /\ SearchReturned
           => /\ Len(all_repos) >= Len(repositories)
              /\ SubSeq(all_repos, Len(all_repos) - Len(repositories) + 1,
                        Len(all_repos)) = repositories
    /\ pc = "ingest_done"
           => /\ \A i \in DOMAIN search_requests :
                     \E j, k \in DOMAIN search_log :
                         /\ j < k
                         /\ search_log[j] = StartEvent(i)
                         /\ search_log[k].ev = "end" /\ search_log[k].req = i
              /\ KeySet(state_repositories) = KeySet(all_repos)

\* C11 witness: the first of two searches collected a record on its first
\* page and was blocked on its second; the second search ran all the same
\* and the run returned the record.
C11_Witness ==
    /\ pc = "ingest_done"
    /\ aborted = {1}
    /\ Len(search_requests) = 2
    /\ \E e \in {search_log[j] : j \in DOMAIN search_log} :
           e.ev = "end" /\ e.req = 1 /\ e.kept = 1
    /\ \E j \in DOMAIN search_log : search_log[j] = StartEvent(2)
    /\ Len(page_log) = 2
    /\ all_repos[1]["full_name"] \in KeySet(state_repositories)

\* The event at position k of a run's search_log when the searches follow one
\* another with a sleep between them: start 1, end 1, sleep, start 2, ...
SequentialShape(log) ==
    \A k \in DOMAIN log :
        LET i == ((k - 1) \div 3) + 1
        IN CASE k % 3 = 1 -> log[k] = StartEvent(i)
             [] k % 3 = 2 -> log[k].ev = "end" /\ log[k].req = i
             [] k % 3 = 0 -> log[k] = SleepEvent(SEARCH_PAUSE_SECONDS)
\* A search is running: its call has begun and has not returned.
SearchRunning ==
    /\ search_log # <<>>
    /\ search_log[Len(search_log)] = StartEvent(req_i)

\* C12: the search requests run one after the other.  At most one search-API
\* request is awaited at any moment, and it belongs to the search that is
\* running; a search starts only after the one before it has returned, with
\* the records of its pages (documentation included) appended; and between
\* the return of one search and the start of the next there is one sleep of
\* SEARCH_PAUSE_SECONDS.
C12_SequentialSearches ==
    /\ Cardinality(in_flight) <= 1
    /\ in_flight # {} => SearchRunning /\ in_flight = {<<req_i, page>>}
    /\ SequentialShape(search_log)
    /\ pc \in {"page", "page_wait", "backoff", "retry", "end_search"}
           => SearchRunning
    /\ \A j, k \in DOMAIN search_log :
           (j < k /\ search_log[j].ev = "start" /\ search_log[k].ev = "start")
               => \E e, d \in (j + 1)..(k - 1) :
                      /\ e < d
                      /\ search_log[e].ev = "end" /\ search_log[e].req = search_log[j].req
                      /\ search_log[d] = SleepEvent(SEARCH_PAUSE_SECONDS)

\* C12 witness: the second search of a run is waiting for its page; the first
\* has returned with a record and the sleep lies between the two.
C12_Witness ==
    /\ pc = "page_wait"
    /\ in_flight = {<<2, 1>>}
    /\ Len(search_log) = 4
    /\ search_log[2].kept = 1
    /\ search_log[3] = SleepEvent(SEARCH_PAUSE_SECONDS)

(***************************************************************************)
(* tools/github.py: the documentation fetches of one search page           *)
(*                                                                         *)
(* fetch_github_repositories creates one fetch_repo_documentation task per *)
(* hit and gathers them.  Each task creates a README task, fetches the     *)
(* root listing, and creates one task per markdown file and per docs/      *)
(* directory of the listing; those run under a semaphore the call creates  *)
(* for itself.  A directory task fetches the listing of the directory and  *)
(* gathers the fetches of its markdown files.  Tasks are counted, not      *)
(* named: a hit's state is how many of its fetches are where.              *)
(***************************************************************************)
\* Most hits on a page, most markdown files in a root listing, most markdown
\* files in a docs/ directory.
MaxHits == 4
MaxMdFiles == 4
MaxDirFiles == 4

CONCURRENT_DOC_FETCH == 3

\* The pages: one hit with any listing, two hits with at most one markdown
\* file each, or more hits with an empty listing.
FetchPages ==
    {pg \in [hits : 1..MaxHits, md_files : 0..MaxMdFiles, has_dir : BOOLEAN,
             dir_md_files : 0..MaxDirFiles] :
        /\ ~pg.has_dir => pg.dir_md_files = 0
        /\ pg.hits > 1 => (pg.md_files <= 1 /\ ~pg.has_dir)
        /\ pg.hits > 2 => pg.md_files = 0}

\* asyncio.create_task(fetch_repo_documentation(...)): nothing has run yet.
NewTask ==
    [phase |-> "created", readme |-> "created", files_waiting |-> 0,
     files_fetching |-> 0, dir |-> "none", dir_files |-> 0, permits |-> 0]

InitFetch ==
    /\ pc = "fetch"
    /\ OtherIdle
    /\ fetch_page \in FetchPages
    /\ fetch_tasks = [h \in 1..fetch_page.hits |-> NewTask]
    /\ enrich_tasks = <<>>
    /\ AssemblyIdle
    /\ reranked_candidates = <<>>
    /\ FilterIdleInputs
    /\ MergeIdle
    /\ RerankIdle
    /\ QueryIdle
    /\ IngestIdle

fetchFrame ==
    <<fetch_page, enrich_tasks, assemblyVars, filterVars, mergeVars, rerankVars,
      queryVars, ingestVars, otherVars>>

\* The task of hit h becomes t.
SetTask(h, t) ==
    /\ pc = "fetch"
    /\ fetch_tasks' = [fetch_tasks EXCEPT ![h] = t]
    /\ UNCHANGED <<pc, fetchFrame>>

\* fetch_repo_documentation begins: the README task is created and the root
\* listing is requested.
task_start(h) ==
    /\ fetch_tasks[h].phase = "created"
    /\ SetTask(h, [fetch_tasks[h] EXCEPT !.phase = "root"])

\* fetch_readme_content requests the README.
readme_start(h) ==
    /\ fetch_tasks[h].phase # "created"
    /\ fetch_tasks[h].readme = "created"
    /\ SetTask(h, [fetch_tasks[h] EXCEPT !.readme = "fetching"])

\* The README request returns.
readme_done(h) ==
    /\ fetch_tasks[h].readme = "fetching"
    /\ SetTask(h, [fetch_tasks[h] EXCEPT !.readme = "done"])

\* The root listing returns.  If it is a 200 the semaphore is created, and a
\* task for every markdown file and docs/ directory; all wait for a permit.
root_done(h) ==
    /\ fetch_tasks[h].phase = "root"
    /\ \E ok \in BOOLEAN :
           SetTask(h, IF ok
                      THEN [fetch_tasks[h] EXCEPT
                                !.phase = "gather",
                                !.permits = CONCURRENT_DOC_FETCH,
                                !.files_waiting = fetch_page.md_files,
                                !.dir = IF fetch_page.has_dir THEN "waiting"
                                        ELSE "none"]
                      ELSE [fetch_tasks[h] EXCEPT !.phase = "gather"])

\* safe_fetch(fetch_file_content, ...) takes a permit and requests the file.
file_acquire(h) ==
    /\ fetch_tasks[h].files_waiting > 0
    /\ fetch_tasks[h].permits > 0
    /\ SetTask(h, [fetch_tasks[h] EXCEPT !.files_waiting = @ - 1,
                                          !.files_fetching = @ + 1,
                                          !.permits = @ - 1])

\* The file request returns and the permit is given back.
file_done(h) ==
    /\ fetch_tasks[h].files_fetching > 0
    /\ SetTask(h, [fetch_tasks[h] EXCEPT !.files_fetching = @ - 1,
                                          !.permits = @ + 1])

\* safe_fetch(fetch_directory_markdown, ...) takes a permit and requests the
\* listing of the directory.
dir_acquire(h) ==
    /\ fetch_tasks[h].dir = "waiting"
    /\ fetch_tasks[h].permits > 0
    /\ SetTask(h, [fetch_tasks[h] EXCEPT !.dir = "listing", !.permits = @ - 1])

\* The directory listing returns.  If it is a 200 with markdown files, their
\* fetches are gathered, all at once; otherwise the task ends.
dir_listed(h) ==
    /\ fetch_tasks[h].dir = "listing"
    /\ \E ok \in BOOLEAN :
           SetTask(h, IF ok /\ fetch_page.dir_md_files > 0
                      THEN [fetch_tasks[h] EXCEPT
                                !.dir = "files",
                                !.dir_files = fetch_page.dir_md_files]
                      ELSE [fetch_tasks[h] EXCEPT !.dir = "done",
                                                  !.permits = @ + 1])

\* One file request of the directory returns; with the last one the
\* directory task ends and gives its permit back.
dir_file_done(h) ==
    /\ fetch_tasks[h].dir = "files"
    /\ fetch_tasks[h].dir_files > 0
    /\ SetTask(h, IF fetch_tasks[h].dir_files = 1
                  THEN [fetch_tasks[h] EXCEPT !.dir_files = 0, !.dir = "done",
                                              !.permits = @ + 1]
                  ELSE [fetch_tasks[h] EXCEPT !.dir_files = @ - 1])

\* The gather of the hit's tasks and `await readme_task` are over; the
\* documentation is assembled and the hit's task returns.
task_done(h) ==
    /\ fetch_tasks[h].phase = "gather"
    /\ fetch_tasks[h].files_waiting = 0
    /\ fetch_tasks[h].files_fetching = 0
    /\ fetch_tasks[h].dir \in {"none", "done"}
    /\ fetch_tasks[h].readme = "done"
    /\ SetTask(h, [fetch_tasks[h] EXCEPT !.phase = "done"])

\* docs = await asyncio.gather(*tasks, return_exceptions=True) returns.
gather_done ==
    /\ pc = "fetch"
    /\ \A h \in DOMAIN fetch_tasks : fetch_tasks[h].phase = "done"
    /\ pc' = "fetch_done"
    /\ UNCHANGED <<fetch_tasks, fetchFrame>>

NextFetch ==
    \/ \E h \in DOMAIN fetch_tasks :
           \/ task_start(h)
           \/ readme_start(h)
           \/ readme_done(h)
           \/ root_done(h)
           \/ file_acquire(h)
           \/ file_done(h)
           \/ dir_acquire(h)
           \/ dir_listed(h)
           \/ dir_file_done(h)
           \/ task_done(h)
    \/ gather_done

SpecFetch == InitFetch /\ [][NextFetch]_vars

\* The number of a hit's HTTP requests that are awaited.
RequestsInFlight(t) ==
    (IF t.phase = "root" THEN 1 ELSE 0) + (IF t.readme = "fetching" THEN 1 ELSE 0)
        + t.files_fetching + (IF t.dir = "listing" THEN 1 ELSE 0) + t.dir_files
\* The number of a hit's tasks that hold a permit of its semaphore.
PermitHolders(t) ==
    t.files_fetching + (IF t.dir \in {"listing", "files"} THEN 1 ELSE 0)
RECURSIVE SumOver(_, _)
SumOver(f, n) == IF n = 0 THEN 0 ELSE f[n] + SumOver(f, n - 1)
\* The documentation requests awaited, over all hits of the page.
DocRequestsInFlight ==
    SumOver([h \in DOMAIN fetch_tasks |-> RequestsInFlight(fetch_tasks[h])],
            Len(fetch_tasks))
\* The hits whose fetch_repo_documentation has begun and has not returned.
DocFetchesRunning ==
    {h \in DOMAIN fetch_tasks : fetch_tasks[h].phase \in {"root", "gather"}}

\* C13: at no moment are more than CONCURRENT_DOC_FETCH documentation fetches
\* in flight, counted as the fetch_repo_documentation calls that are running
\* and as the documentation requests that are awaited.
C13_DocFetchCap ==
    /\ Cardinality(DocFetchesRunning) <= CONCURRENT_DOC_FETCH
    /\ DocRequestsInFlight <= CONCURRENT_DOC_FETCH

\* The calls alone: a page of four hits has four of them running.
C13_RunningCallsCap == Cardinality(DocFetchesRunning) <= CONCURRENT_DOC_FETCH
\* The requests of one hit alone: a docs/ directory of four markdown files
\* has four requests awaited under one permit.
C13_RequestsOfOneHitCap ==
    \A h \in DOMAIN fetch_tasks :
        RequestsInFlight(fetch_tasks[h]) <= CONCURRENT_DOC_FETCH
\* What the semaphore does bound: the tasks of one hit that hold a permit.
PermitHoldersWithinCap ==
    \A h \in DOMAIN fetch_tasks :
        /\ PermitHolders(fetch_tasks[h]) <= CONCURRENT_DOC_FETCH
        /\ PermitHolders(fetch_tasks[h]) + fetch_tasks[h].permits
               \in {0, CONCURRENT_DOC_FETCH}

(***************************************************************************)
(* tools/github.py: the enrichment pass of ingest_github_repos_async       *)
(*                                                                         *)
(* In Personal Project mode one fetch_simple_metadata coroutine is made    *)
(* for every unique repository and all are gathered.  A coroutine makes    *)
(* its four requests one after the other; an exception ends it.  Only the  *)
(* scheduling is modelled here; the counts it returns are in SpecIngest.   *)
(***************************************************************************)
\* Most unique repositories to enrich.
MaxEnrich == 4

\* The requests of fetch_simple_metadata, in order: branches, pulls,
\* contributors, commits.
METADATA_REQUESTS == 4

\* A coroutine's position: 0 not started, k awaiting its k-th request,
\* METADATA_REQUESTS + 1 returned.
Returned == METADATA_REQUESTS + 1

RepoName(i) == "o/r" \o ToString(i)

InitEnrich ==
    /\ pc = "enrich"
    /\ OtherIdle
    /\ project_type \in IngestProjectTypes
    /\ \E n \in 0..MaxEnrich :
           state_repositories = [i \in 1..n |-> [full_name |-> RepoName(i)]]
    /\ enrich_tasks = <<>>
    /\ fetch_page = [hits |-> 0, md_files |-> 0, has_dir |-> FALSE, dir_md_files |-> 0]
    /\ fetch_tasks = <<>>
    /\ AssemblyIdle
    /\ activity_candidates = <<>>
    /\ quality_candidates = <<>>
    /\ allow_list = <<>>
    /\ reranked_candidates = <<>>
    /\ FilterIdleInputs
    /\ RerankIdle
    /\ QueryIdle
    /\ max_results = 0
    /\ per_page = 0
    /\ req_i = 0
    /\ page = 0
    /\ page_log = <<>>
    /\ search_log = <<>>
    /\ aborted = {}
    /\ in_flight = {}
    /\ meta_responses = <<>>
    /\ repositories = <<>>
    /\ all_repos = <<>>

enrichFrame ==
    <<fetch_page, fetch_tasks, assemblyVars, filterVars, mergeVars, rerankVars,
      queryVars, ingestVars, otherVars>>

\* if project_type == "Personal Project": a coroutine per unique repository,
\* handed to asyncio.gather.
enrich_start ==
    /\ pc = "enrich"
    /\ IF project_type = "Personal Project"
       THEN /\ enrich_tasks' = [i \in DOMAIN state_repositories |-> 0]
            /\ pc' = "enrich_gather"
       ELSE /\ pc' = "enrich_done"
            /\ UNCHANGED enrich_tasks
    /\ UNCHANGED enrichFrame

\* A coroutine goes on: it sends its first request, or the request it awaits
\* returns and it sends the next or, after the last, returns its counts.
meta_step(i) ==
    /\ pc = "enrich_gather"
    /\ enrich_tasks[i] < Returned
    /\ enrich_tasks' = [enrich_tasks EXCEPT ![i] = @ + 1]
    /\ UNCHANGED <<pc, enrichFrame>>

\* The request a coroutine awaits raises: except, return meta.
meta_raise(i) ==
    /\ pc = "enrich_gather"
    /\ enrich_tasks[i] \in 1..METADATA_REQUESTS
    /\ enrich_tasks' = [enrich_tasks EXCEPT ![i] = Returned]
    /\ UNCHANGED <<pc, enrichFrame>>

\* enrich_results = await asyncio.gather(...) returns.
enrich_gather_done ==
    /\ pc = "enrich_gather"
    /\ \A i \in DOMAIN enrich_tasks : enrich_tasks[i] = Returned
    /\ pc' = "enrich_done"
    /\ UNCHANGED <<enrich_tasks, enrichFrame>>

NextEnrich ==
    \/ enrich_start
    \/ \E i \in DOMAIN enrich_tasks : meta_step(i) \/ meta_raise(i)
    \/ enrich_gather_done

SpecEnrich == InitEnrich /\ [][NextEnrich]_vars

\* The repositories whose fetch_simple_metadata awaits a request.
BeingEnriched ==
    {i \in DOMAIN enrich_tasks : enrich_tasks[i] \in 1..METADATA_REQUESTS}

\* C14: in Personal Project mode at most CONCURRENT_DOC_FETCH repositories
\* are being enriched at the same moment.
C14_EnrichmentCap ==
    project_type = "Personal Project"
        => Cardinality(BeingEnriched) <= CONCURRENT_DOC_FETCH

\* What does hold: a repository has at most one metadata request awaited,
\* and outside Personal Project mode none is sent.
EnrichmentOneRequestPerRepo ==
    /\ Cardinality(BeingEnriched) <= Len(state_repositories)
    /\ project_type # "Personal Project" => enrich_tasks = <<>>

\* The hits of a logged page that was retrieved (answered 200).
HitsOf(events) ==
    LET last == events[Len(events)]
    IN IF last.ev = "fetch" /\ ~last.raised /\ last.status = 200
       THEN last.items
       ELSE <<>>
\* The hits of the retrieved pages of the current search, in order.
RECURSIVE HitsUpTo(_)
HitsUpTo(n) == IF n = 0 THEN <<>> ELSE HitsUpTo(n - 1) \o HitsOf(page_log[n])
\* The documentation fields of a candidate record.
DocFields(rec) == <<rec["combined_doc"], rec["readme_size"], rec["arch_size"]>>
\* A metadata count of a record, read as the later stages read it.
CountOf(rec, k) == Get(rec, k, 0)

\* C15: every hit of a retrieved page has exactly one record, in the order of
\* the hits; a hit whose documentation fetch raised has empty documentation
\* and sizes 0, and every other hit has what its own fetch returned.  In
\* Personal Project mode the enrichment keeps every deduplicated record and
\* its documentation; a count whose request failed, or was not reached
\* because an earlier one raised, is 0, and a count that was fetched is the
\* number fetched, whatever happened to the other repositories.
C15_FailureDegradesOneCandidate ==
    /\ pc \notin {"ingest", "ingest_done"} =>
           LET hits == HitsUpTo(Len(page_log))
           IN /\ Len(repositories) = Len(hits)
              /\ \A i \in DOMAIN hits :
                     /\ repositories[i]["full_name"] = hits[i].full_name
                     /\ DocFields(repositories[i]) =
                            IF hits[i].doc.exc THEN <<EmptyText, 0, 0>>
                            ELSE hits[i].doc.doc
    /\ (pc = "ingest_done" /\ project_type = "Personal Project") =>
           LET unique_repos == Deduplicate(all_repos)
           IN /\ Len(state_repositories) = Len(unique_repos)
              /\ DOMAIN meta_responses = DOMAIN unique_repos
              /\ \A i \in DOMAIN unique_repos :
                     /\ state_repositories[i]["full_name"] = unique_repos[i]["full_name"]
                     /\ DocFields(state_repositories[i]) = DocFields(unique_repos[i])
                     /\ \A j \in DOMAIN MetaKeys :
                            LET r == meta_responses[i].resps
                                failed ==
                                    \/ meta_responses[i].cancelled
                                    \/ r[j].status # 200
                                    \/ \E q \in 1..j : r[q].raised
                            IN CountOf(state_repositories[i], MetaKeys[j]) =
                                   IF failed THEN 0 ELSE r[j].n

\* C15 witness: a page of two hits, the documentation fetch of the second
\* raised and that of the first did not; both have a record, the first with
\* its documentation; the metadata requests of one failed midway and those
\* of the other were all answered.
C15_Witness ==
    /\ pc = "ingest_done"
    /\ project_type = "Personal Project"
    /\ Len(page_log) = 1
    /\ Len(HitsOf(page_log[1])) = 2
    /\ HitsOf(page_log[1])[2].doc.exc
    /\ Len(state_repositories) = 2
    /\ state_repositories[1]["readme_size"] > 0
    /\ state_repositories[2]["combined_doc"] = EmptyText
    /\ meta_responses[1].resps[3].raised
    /\ state_repositories[1]["branch_count"] = 2
    /\ state_repositories[1]["commit_count"] = 0
    /\ state_repositories[2]["commit_count"] = 40

\* The position in all_repos of the first record with this full name.
FirstSeen(name) ==
    CHOOSE j \in DOMAIN all_repos :
        /\ all_repos[j]["full_name"] = name
        /\ \A q \in 1..(j - 1) : all_repos[q]["full_name"] # name

\* C16: the list returned holds, for each full name fetched, the record of
\* its first occurrence in all_repos (the records of the search requests in
\* the order they ran), with every field as that record has it and none
\* taken from a later record of the same name, and the records are in the
\* order of those first occurrences.
C16_FirstSeenWins ==
    pc = "ingest_done" =>
        /\ KeySet(state_repositories) = KeySet(all_repos)
        /\ \A i \in DOMAIN state_repositories :
               LET kept == state_repositories[i]
                   first == all_repos[FirstSeen(kept["full_name"])]
               IN /\ \A k \in DOMAIN first : kept[k] = first[k]
                  /\ DOMAIN kept \ DOMAIN first
                         \subseteq {MetaKeys[j] : j \in DOMAIN MetaKeys}
        /\ \A i, j \in DOMAIN state_repositories :
               i < j => FirstSeen(state_repositories[i]["full_name"])
                            < FirstSeen(state_repositories[j]["full_name"])

\* C16 witness: "o/a" was fetched twice, first without documentation and then
\* with it, and "o/b" after it; the list returned has "o/a" without
\* documentation and then "o/b".
C16_Witness ==
    /\ pc = "ingest_done"
    /\ Len(all_repos) >= 3
    /\ all_repos[1]["full_name"] = "o/a"
    /\ all_repos[2]["full_name"] = "o/a"
    /\ all_repos[1]["combined_doc"] = EmptyText
    /\ all_repos[2]["combined_doc"] # EmptyText
    /\ Len(state_repositories) = 2
    /\ state_repositories[1]["full_name"] = "o/a"
    /\ state_repositories[1]["combined_doc"] = EmptyText
    /\ state_repositories[2]["full_name"] = "o/b"

(***************************************************************************)
(* tools/cross_encoder_reranking.py: the result of the reranker            *)
(***************************************************************************)
\* state.semantic_ranked[:100] as the reranker left it: the scored batch.
Window == Take(semantic_ranked, RERANK_WINDOW)
\* The score a candidate dict carries.
ScoreOf(c) == c["cross_encoder_score"]
\* The candidates of the batch that were not returned.
Omitted ==
    {j \in DOMAIN Window :
        \A i \in DOMAIN reranked_candidates : reranked_candidates[i] # Window[j]}

\* C18: the reranker returns at most cross_encoder_top_n candidates (all of
\* the batch if it has no more), each one a candidate of the first
\* RERANK_WINDOW entries of the semantic ranking and none twice, in
\* non-increasing order of score; no candidate of the batch that was left
\* out has a higher score than one returned; the entries after the window
\* are neither scored nor returned; an empty ranking gives an empty result.
C18_TopMSorted ==
    pc = "rerank_done" =>
        /\ Len(reranked_candidates) <= cross_encoder_top_n
        /\ Len(reranked_candidates) = Len(Take(Window, cross_encoder_top_n))
        /\ \A i \in DOMAIN reranked_candidates :
               \E j \in DOMAIN Window : reranked_candidates[i] = Window[j]
        /\ \A i, j \in DOMAIN reranked_candidates :
               /\ i < j => ScoreOf(reranked_candidates[i])
                               >= ScoreOf(reranked_candidates[j])
               /\ i # j => reranked_candidates[i]["full_name"]
                               # reranked_candidates[j]["full_name"]
        /\ \A j \in Omitted : \A i \in DOMAIN reranked_candidates :
               ScoreOf(Window[j]) <= ScoreOf(reranked_candidates[i])
        /\ \A j \in DOMAIN semantic_ranked :
               j > RERANK_WINDOW => "cross_encoder_score" \notin DOMAIN semantic_ranked[j]
        /\ semantic_ranked = <<>> => reranked_candidates = <<>>

\* C18 witness: a ranking of RERANK_WINDOW + 1 candidates and top_n 10: ten
\* are returned, not in the order of the ranking, a hundred were scored, and
\* a candidate left out has a lower score than the last one returned.
C18_Witness ==
    /\ pc = "rerank_done"
    /\ Len(semantic_ranked) = RERANK_WINDOW + 1
    /\ cross_encoder_top_n = 10
    /\ Len(reranked_candidates) = 10
    /\ Len(rerank_raw) = RERANK_WINDOW
    /\ reranked_candidates[1]["full_name"] # semantic_ranked[1]["full_name"]
    /\ \E j \in Omitted : ScoreOf(Window[j]) < ScoreOf(reranked_candidates[10])

\* An empty ranking was reranked: the result is empty.
C18_WitnessEmpty ==
    /\ pc = "rerank_done"
    /\ semantic_ranked = <<>>
    /\ reranked_candidates = <<>>

\* The sizes the second loop reads from a candidate.
ReadmeSizeOf(c) == Get(c, "readme_size", 0)
ArchSizeOf(c) == Get(c, "arch_size", 0)

\* C19: the second loop adds boost - penalty to the raw score, where boost is
\* half the sum of log10(readme_size + 1) and log10(arch_size + 1) and the
\* penalty is LOW_DOC_PENALTY when both sizes are below LOW_DOC_THRESHOLD and
\* 0 otherwise; sizes (50, 30) get the penalty, sizes (5000, 2000) the boost
\* alone.  In thousandths: 1599 - 5000 and 3500.
C19_BoostAndPenalty ==
    pc = "rerank_done" =>
        \A i \in DOMAIN rerank_adjusted :
            LET r == ReadmeSizeOf(Window[i])
                a == ArchSizeOf(Window[i])
                added == rerank_adjusted[i] - rerank_raw[i]
            IN /\ added = (Log10Milli(r + 1) + Log10Milli(a + 1)) \div 2
                              - (IF r < LOW_DOC_THRESHOLD /\ a < LOW_DOC_THRESHOLD
                                 THEN LOW_DOC_PENALTY ELSE 0)
               /\ (r = 50 /\ a = 30) => added = 1599 - LOW_DOC_PENALTY
               /\ (r = 5000 /\ a = 2000) => added = 3500

\* C19 witness: a batch with a candidate of sizes (50, 30) and one of sizes
\* (5000, 2000), both scored 6000 by the model.
C19_Witness ==
    /\ pc = "rerank_done"
    /\ Len(rerank_adjusted) = 2
    /\ ReadmeSizeOf(Window[1]) = 50 /\ ArchSizeOf(Window[1]) = 30
    /\ ReadmeSizeOf(Window[2]) = 5000 /\ ArchSizeOf(Window[2]) = 2000
    /\ rerank_raw = <<6000, 6000>>
    /\ rerank_adjusted = <<2599, 9500>>

\* A candidate with one size only at LOW_DOC_THRESHOLD or above was adjusted:
\* it has no penalty.
C19_WitnessOneSizeSmall ==
    /\ pc = "rerank_done"
    /\ \E i \in DOMAIN rerank_adjusted :
           /\ ReadmeSizeOf(Window[i]) >= LOW_DOC_THRESHOLD
           /\ ArchSizeOf(Window[i]) < LOW_DOC_THRESHOLD
           /\ rerank_adjusted[i] > rerank_raw[i]

\* C20: post-processing adds one amount to every score of the batch: minus
\* the least adjusted score if that is negative, and zero otherwise.  When a
\* shift occurs the least score of the batch becomes exactly zero.  The
\* difference of any two scores is what it was, and so is their order.
\* Adjusted scores -2.0, 1.0, 3.0 become 0.0, 3.0, 5.0.
C20_UniformShift ==
    /\ PostProcess(<<-2000, 1000, 3000>>) = <<0, 3000, 5000>>
    /\ (pc = "rerank_done" /\ rerank_adjusted # <<>>) =>
           LET least == MinOf({rerank_adjusted[i] : i \in DOMAIN rerank_adjusted})
               shift == IF least < 0 THEN 0 - least ELSE 0
           IN /\ DOMAIN rerank_adjusted = DOMAIN Window
              /\ \A i \in DOMAIN Window :
                     ScoreOf(Window[i]) = rerank_adjusted[i] + shift
              /\ least < 0 => MinOf(BatchScores) = 0
              /\ \A i, j \in DOMAIN Window :
                     /\ ScoreOf(Window[i]) - ScoreOf(Window[j])
                            = rerank_adjusted[i] - rerank_adjusted[j]
                     /\ (ScoreOf(Window[i]) < ScoreOf(Window[j]))
                            <=> (rerank_adjusted[i] < rerank_adjusted[j])

\* C20 witness: three candidates with three different adjusted scores, the
\* least of them negative and another one negative as well; all three were
\* raised by the same amount and the least is now zero.
C20_Witness ==
    /\ pc = "rerank_done"
    /\ Len(rerank_adjusted) = 3
    /\ rerank_adjusted[1] < rerank_adjusted[2]
    /\ rerank_adjusted[2] < 0
    /\ rerank_adjusted[3] > 0
    /\ ScoreOf(Window[1]) = 0
    /\ ScoreOf(Window[2]) > 0
    /\ ScoreOf(Window[3]) - rerank_adjusted[3] = 0 - rerank_adjusted[1]

\* No adjusted score was negative and the scores are as adjusted.
C20_WitnessNoShift ==
    /\ pc = "rerank_done"
    /\ Len(rerank_adjusted) >= 2
    /\ \A i \in DOMAIN rerank_adjusted :
           rerank_adjusted[i] > 0 /\ ScoreOf(Window[i]) = rerank_adjusted[i]

\* What the first loop makes of the scores predict returned for a document
\* of the given length.
OwnScore(len, scores) ==
    IF CapDoc(len) < MIN_DOC_LENGTH THEN scores[1]
    ELSE (MaxOf({scores[k] : k \in DOMAIN scores})
              + SumSeq(scores) \div Len(scores)) \div 2

\* C21: a candidate whose scoring raised holds exactly 0.0 after the first
\* loop, and the batch goes on: every candidate of the batch has a score,
\* every candidate whose scoring succeeded holds the score of its own
\* predictions, every candidate is adjusted by its own boost and penalty and
\* shifted with the batch, and the result has top_n candidates or the whole
\* batch.
C21_ScoringFailureIsZero ==
    pc = "rerank_done" =>
        /\ DOMAIN rerank_raw = DOMAIN Window
        /\ DOMAIN rerank_preds = DOMAIN Window
        /\ \A i \in DOMAIN Window :
               /\ ~rerank_preds[i].ok => rerank_raw[i] = 0
               /\ rerank_preds[i].ok =>
                      rerank_raw[i] = OwnScore(Window[i]["combined_doc"],
                                               rerank_preds[i].scores)
               /\ rerank_adjusted[i] =
                      rerank_raw[i]
                          + Boost(ReadmeSizeOf(Window[i]), ArchSizeOf(Window[i]))
                          - Penalty(ReadmeSizeOf(Window[i]), ArchSizeOf(Window[i]))
               /\ "cross_encoder_score" \in DOMAIN Window[i]
               /\ \A j \in DOMAIN Window :
                      ScoreOf(Window[i]) - rerank_adjusted[i]
                          = ScoreOf(Window[j]) - rerank_adjusted[j]
        /\ Len(reranked_candidates) = Len(Take(Window, cross_encoder_top_n))

\* C21 witness: of three candidates the scoring of the second raised; it
\* holds 0 after the first loop, the first and the third hold the scores of
\* their predictions, -3000 and 6000, and all three are returned.
C21_Witness ==
    /\ pc = "rerank_done"
    /\ Len(Window) = 3
    /\ rerank_preds[1].ok /\ ~rerank_preds[2].ok /\ rerank_preds[3].ok
    /\ rerank_raw = <<-3000, 0, 6000>>
    /\ Len(reranked_candidates) = 3

\* In the long batch a third of the scorings raised and ten candidates are
\* returned.
C21_WitnessLong ==
    /\ pc = "rerank_done"
    /\ Len(Window) = RERANK_WINDOW
    /\ ~rerank_preds[3].ok
    /\ rerank_raw[3] = 0
    /\ rerank_preds[RERANK_WINDOW].ok
    /\ rerank_raw[RERANK_WINDOW] # 0
    /\ Len(reranked_candidates) = 10

(***************************************************************************)
(* tools/personal_analysis.py: evaluate_personal_project                   *)
(*                                                                         *)
(* The function runs in three steps: the fatal checks, the hard signals    *)
(* read from the metadata and the file list, and the soft signals, for     *)
(* which the LLM chain is invoked once.  The LLM is an external service:   *)
(* what its invocation meets is a free choice.                             *)
(***************************************************************************)
\* if open_issues >= 10
MAX_OPEN_ISSUES == 10
\* if pr_count >= 10
MAX_PR_COUNT == 10
\* if branch_count > 5
MAX_BRANCHES == 5
\* "is_personal_gold": score >= 8
GOLD_BAR == 8
\* return -100, data
LLM_REJECT_SCORE == -100
\* if 1 <= contributors_count <= 3
MIN_CONTRIBUTORS == 1
MAX_CONTRIBUTORS == 3
\* if 1000 <= size_kb <= 200000
MIN_SIZE_KB == 1000
MAX_SIZE_KB == 200000
\* if 0 <= stars <= 50
MAX_STARS == 50

\* k in s, for strings.
Contains(s, k) ==
    \E i \in 1..(Len(s) - Len(k) + 1) : SubSeq(s, i, i + Len(k) - 1) = k

\* str.lower(), letter by letter, for the capitals the titles and the file
\* names use.
LowerChar(c) ==
    CASE c = "R" -> "r"
      [] c = "S" -> "s"
      [] c = "T" -> "t"
      [] c = "B" -> "b"
      [] c = "M" -> "m"
      [] c = "D" -> "d"
      [] OTHER -> c
RECURSIVE Lower(_)
Lower(s) ==
    IF Len(s) = 0 THEN ""
    ELSE LowerChar(SubSeq(s, 1, 1)) \o Lower(SubSeq(s, 2, Len(s)))

\* keywords = ["template", "boilerplate", "starter kit", "starter-kit", "scaffold"]
TemplateKeywords ==
    {"template", "boilerplate", "starter kit", "starter-kit", "scaffold"}

\* corporate_files
CorporateFiles == {"CODEOWNERS", "SECURITY.md", "CONTRIBUTING.md", ".github/ISSUE_TEMPLATE"}

\* The repositories the evaluator is given.  A record of the ingestion has a
\* title, open_issues_count, size and stars; description and the three
\* enrichment counts may be there or not.
EvalTitles == {"my-tool", "React Starter Template", "Scaffold-app"}
EvalDescriptions == {"", "a starter kit"}
IssueCounts == {0, MAX_OPEN_ISSUES - 1, MAX_OPEN_ISSUES}
PrCounts == {MAX_PR_COUNT - 1, MAX_PR_COUNT}
BranchCounts == {MAX_BRANCHES, MAX_BRANCHES + 1}
ContributorCounts == {0, MAX_CONTRIBUTORS, MAX_CONTRIBUTORS + 1}
SizesKb == {MIN_SIZE_KB - 1, MIN_SIZE_KB, MAX_SIZE_KB, MAX_SIZE_KB + 1}
StarCounts == {MAX_STARS, MAX_STARS + 1}

\* The optional keys of repo_data: each one absent, or present with a value.
OptionalKeys == {"description", "pr_count", "branch_count", "contributors_count"}
OptionalValues(k) ==
    CASE k = "description" -> EvalDescriptions
      [] k = "pr_count" -> PrCounts
      [] k = "branch_count" -> BranchCounts
      [] k = "contributors_count" -> ContributorCounts

\* The dicts with the required keys and with the given optional keys.
RepoDatasWith(keys) ==
    {[k \in keys \cup {"title", "open_issues_count", "size", "stars"} |->
         CASE k = "title" -> t
           [] k = "open_issues_count" -> i
           [] k = "size" -> z
           [] k = "stars" -> st
           [] k = "description" -> d
           [] k = "pr_count" -> p
           [] k = "branch_count" -> b
           [] k = "contributors_count" -> c] :
        t \in EvalTitles, i \in IssueCounts, z \in SizesKb, st \in StarCounts,
        d \in OptionalValues("description"), p \in OptionalValues("pr_count"),
        b \in OptionalValues("branch_count"),
        c \in OptionalValues("contributors_count")}

\* A record as the ingestion builds it, one enriched with the three counts,
\* and one that carries every key.
RepoDatas ==
    RepoDatasWith({})
        \cup RepoDatasWith({"pr_count", "branch_count", "contributors_count"})
        \cup RepoDatasWith(OptionalKeys)

FileLists ==
    { <<>>,
      <<"src/main.py", ".github/workflows/ci.yml">>,
      <<"CODEOWNERS", "docs/SECURITY.md", ".github/workflows/ci.yml",
        ".github/workflows/release.yml">> }

\* The seven criteria the prompt asks for, and the two flags.
Criteria ==
    <<"author_ownership", "real_commit_pattern", "human_readme", "focused_scope",
      "simple_structure", "no_corp_branching", "honest_tone">>
Flags == {"is_template", "real_project"}

\* The JSON object of an answer in which the first n criteria are true, and
\* each flag is absent, false or true.
Answer(n, template, real) ==
    [k \in {Criteria[i] : i \in DOMAIN Criteria}
               \cup (IF template = "absent" THEN {} ELSE {"is_template"})
               \cup (IF real = "absent" THEN {} ELSE {"real_project"}) |->
        CASE k = "is_template" -> template = "true"
          [] k = "real_project" -> real = "true"
          [] OTHER -> \E i \in 1..n : Criteria[i] = k]

\* What an invocation of the chain may meet: an exception (no API key, a
\* network error, a timeout), an answer with no {...} in it, an answer whose
\* {...} is not JSON, or an answer with a JSON object.
LlmOutcomes ==
    {[kind |-> "raise"], [kind |-> "no_json"], [kind |-> "bad_json"]}
        \cup {[kind |-> "json", data |-> Answer(n, t, r)] :
                 n \in {0, 2, 3, 7},
                 t \in {"absent", "false", "true"},
                 r \in {"absent", "false", "true"}}

\* The dict a fatal check returns.
Rejection(reason) ==
    [k \in {"score", "is_personal_gold", "rejected", "reason"} |->
        CASE k = "score" -> 0
          [] k = "is_personal_gold" -> FALSE
          [] k = "rejected" -> TRUE
          [] k = "reason" -> reason]

\* title_desc = (title + " " + description).lower()
TitleDesc(data) ==
    Lower(Get(data, "title", "") \o " " \o Get(data, "description", ""))

\* Mutant: the keyword check reads the description alone.
FatalCheck_DescriptionOnly(data) ==
    IF \E k \in TemplateKeywords : Contains(Lower(Get(data, "description", "")), k)
    THEN Some(Rejection("Detected as Template/Boilerplate"))
    ELSE None

\* The fatal checks in their order: the rejection of the first that fires,
\* or None.
FatalCheck(data) ==
    LET open_issues == Get(data, "open_issues_count", 0)
        pr_count == Get(data, "pr_count", 0)
        branch_count == Get(data, "branch_count", 0)
    IN IF open_issues >= MAX_OPEN_ISSUES
       THEN Some(Rejection("Too many issues (" \o ToString(open_issues) \o ")"))
       ELSE IF pr_count >= MAX_PR_COUNT
       THEN Some(Rejection("Too many PRs (" \o ToString(pr_count) \o ")"))
       ELSE IF branch_count > MAX_BRANCHES
       THEN Some(Rejection("Too many branches (" \o ToString(branch_count) \o ")"))
       ELSE IF \E k \in TemplateKeywords : Contains(TitleDesc(data), k)
       THEN Some(Rejection("Detected as Template/Boilerplate"))
       ELSE None

\* found_corporate and workflows
FoundCorporate(files) ==
    {f \in CorporateFiles : \E i \in DOMAIN files : Contains(files[i], f)}
Workflows(files) ==
    {i \in DOMAIN files : Contains(files[i], ".github/workflows")}

\* The hard signals: the dict signals after the metadata checks.
HardSignals(data, files) ==
    [k \in {"contributors", "size", "process_files", "ci_cd", "dependencies", "stars"} |->
        CASE k = "contributors" ->
                 LET c == Get(data, "contributors_count", 1)
                 IN MIN_CONTRIBUTORS <= c /\ c <= MAX_CONTRIBUTORS
          [] k = "size" ->
                 LET z == Get(data, "size", 0)
                 IN MIN_SIZE_KB <= z /\ z <= MAX_SIZE_KB
          [] k = "process_files" -> Cardinality(FoundCorporate(files)) <= 1
          [] k = "ci_cd" -> Cardinality(Workflows(files)) <= 1
          [] k = "dependencies" -> "Skipped (Content analysis required)"
          [] k = "stars" ->
                 LET n == Get(data, "stars", 0) IN 0 <= n /\ n <= MAX_STARS]

\* The signals that give a point each.
PointSignals == {"contributors", "size", "process_files", "ci_cd", "stars"}

\* The score after the hard signals.
HardScore(signals) == Cardinality({k \in PointSignals : signals[k]})

\* Mutant: a flagged answer is scored as any other.
analyze_soft_signals_NoFlags(outcome) ==
    IF outcome.kind # "json" THEN <<0, <<>>>>
    ELSE <<Cardinality({k \in DOMAIN outcome.data :
                           outcome.data[k] /\ k # "is_template"}),
           outcome.data>>

\* Mutant: a failed invocation counts as an answer with every criterion met.
analyze_soft_signals_FailOpen(outcome) ==
    IF outcome.kind # "json" THEN <<GOLD_BAR, <<>>>>
    ELSE <<Cardinality({k \in DOMAIN outcome.data :
                           outcome.data[k] /\ k # "is_template"}),
           outcome.data>>

\* _analyze_soft_signals_with_llm: (llm_score, llm_signals).
analyze_soft_signals(outcome) ==
    IF outcome.kind # "json" THEN <<0, <<>>>>
    ELSE LET data == outcome.data
             llm_score == Cardinality({k \in DOMAIN data :
                                          data[k] /\ k # "is_template"})
         IN IF Get(data, "is_template", FALSE) THEN <<LLM_REJECT_SCORE, data>>
            ELSE IF ~Get(data, "real_project", TRUE) THEN <<LLM_REJECT_SCORE, data>>
            ELSE <<llm_score, data>>

\* signals.update(llm_signals)
UpdateDict(d, e) ==
    [k \in DOMAIN d \cup DOMAIN e |-> IF k \in DOMAIN e THEN e[k] ELSE d[k]]

\* Mutant: the bar is passed only above GOLD_BAR.
Evaluation_StrictBar(score, signals) ==
    [k \in {"score", "is_personal_gold", "rejected", "signals"} |->
        CASE k = "score" -> score
          [] k = "is_personal_gold" -> score > GOLD_BAR
          [] k = "rejected" -> FALSE
          [] k = "signals" -> signals]

\* The dict returned at the end of evaluate_personal_project.
Evaluation(score, signals) ==
    [k \in {"score", "is_personal_gold", "rejected", "signals"} |->
        CASE k = "score" -> score
          [] k = "is_personal_gold" -> score >= GOLD_BAR
          [] k = "rejected" -> FALSE
          [] k = "signals" -> signals]

InitPersonal ==
    /\ pc = "fatal_checks"
    /\ repo_data \in RepoDatas
    /\ file_list \in FileLists
    /\ eval_score = 0
    /\ eval_signals = <<>>
    /\ llm_log = <<>>
    /\ eval_result = <<>>
    /\ CacheIdle
    /\ DirIdle
    /\ reranked_candidates = <<>>
    /\ FilterIdleInputs
    /\ MergeIdle
    /\ RerankIdle
    /\ DocIdle
    /\ QueryIdle
    /\ IngestIdle

personalFrame ==
    <<filterVars, mergeVars, rerankVars, docVars, queryVars, ingestVars,
      repo_data, file_list, cacheVars, dirVars>>

\* The fatal checks: return the rejection of the first that fires.
fatal_checks ==
    /\ pc = "fatal_checks"
    /\ IF FatalCheck(repo_data).some
       THEN /\ eval_result' = FatalCheck(repo_data).v
            /\ pc' = "eval_done"
       ELSE /\ pc' = "hard_signals"
            /\ UNCHANGED eval_result
    /\ UNCHANGED <<eval_score, eval_signals, llm_log, personalFrame>>

\* The hard signals, a point for each that holds.
hard_signals ==
    /\ pc = "hard_signals"
    /\ eval_signals' = HardSignals(repo_data, file_list)
    /\ eval_score' = eval_score + HardScore(eval_signals')
    /\ pc' = "soft_signals"
    /\ UNCHANGED <<llm_log, eval_result, personalFrame>>

\* The soft signals and the return.
soft_signals ==
    /\ pc = "soft_signals"
    /\ \E outcome \in LlmOutcomes :
           LET soft == analyze_soft_signals(outcome)
           IN /\ llm_log' = Append(llm_log, outcome)
              /\ eval_score' = eval_score + soft[1]
              /\ eval_signals' = UpdateDict(eval_signals, soft[2])
              /\ eval_result' = Evaluation(eval_score', eval_signals')
    /\ pc' = "eval_done"
    /\ UNCHANGED personalFrame

NextPersonal ==
    \/ fatal_checks
    \/ hard_signals
    \/ soft_signals

SpecPersonal == InitPersonal /\ [][NextPersonal]_vars

\* C22: whenever a fatal check fires (open issues or pull requests at or
\* above their limit, branches above theirs, or a template keyword in the
\* lower-cased title and description), the evaluator returns score 0,
\* rejected true, is_personal_gold false and a reason, and it has computed no
\* hard signal and has not invoked the LLM.  A repository titled "React
\* Starter Template" is rejected so whatever its other data.
FatalFires ==
    \/ Get(repo_data, "open_issues_count", 0) >= MAX_OPEN_ISSUES
    \/ Get(repo_data, "pr_count", 0) >= MAX_PR_COUNT
    \/ Get(repo_data, "branch_count", 0) > MAX_BRANCHES
    \/ \E k \in TemplateKeywords : Contains(TitleDesc(repo_data), k)
    \/ repo_data["title"] = "React Starter Template"

C22_FatalCheckRejects ==
    FatalFires =>
        /\ pc \in {"fatal_checks", "eval_done"}
        /\ llm_log = <<>>
        /\ eval_signals = <<>>
        /\ eval_score = 0
        /\ pc = "eval_done" =>
              /\ eval_result["score"] = 0
              /\ eval_result["rejected"]
              /\ ~eval_result["is_personal_gold"]
              /\ "reason" \in DOMAIN eval_result
              /\ Len(eval_result["reason"]) > 0

\* C22 witness: "React Starter Template", with no count above its limit and
\* every hard signal in its favour, was rejected with score 0.
C22_Witness ==
    /\ pc = "eval_done"
    /\ repo_data["title"] = "React Starter Template"
    /\ repo_data["open_issues_count"] = 0
    /\ Get(repo_data, "pr_count", 0) < MAX_PR_COUNT
    /\ Get(repo_data, "branch_count", 0) <= MAX_BRANCHES
    /\ HardScore(HardSignals(repo_data, file_list)) = 5
    /\ eval_result["rejected"]
    /\ eval_result["score"] = 0
    /\ eval_result["reason"] = "Detected as Template/Boilerplate"
    /\ llm_log = <<>>

\* A count alone fired: six branches.
C22_WitnessBranches ==
    /\ pc = "eval_done"
    /\ repo_data["title"] = "my-tool"
    /\ eval_result["rejected"]
    /\ eval_result["reason"] = "Too many branches (6)"

\* The answer of the LLM raised a rejection flag: is_template true, or
\* real_project false.
LlmFlagged ==
    /\ llm_log # <<>>
    /\ llm_log[1].kind = "json"
    /\ \/ Get(llm_log[1].data, "is_template", FALSE)
       \/ ~Get(llm_log[1].data, "real_project", TRUE)

\* C23: when the answer of the LLM raises a rejection flag, the result is
\* that of a fatal check: rejected is true and is_personal_gold is false,
\* whatever the hard signals gave.
C23_LlmFlagRejects ==
    (pc = "eval_done" /\ LlmFlagged) =>
        /\ eval_result["rejected"]
        /\ ~eval_result["is_personal_gold"]

\* What the code does for a flagged answer: LLM_REJECT_SCORE is added to the
\* points of the hard signals, so the score is negative and the candidate is
\* not personal gold, and rejected is false as for every candidate that
\* passed the fatal checks.
FlaggedIsPenalised ==
    (pc = "eval_done" /\ LlmFlagged) =>
        /\ eval_result["score"]
               = HardScore(HardSignals(repo_data, file_list)) + LLM_REJECT_SCORE
        /\ eval_result["score"] < 0
        /\ ~eval_result["is_personal_gold"]
        /\ ~eval_result["rejected"]
        /\ "reason" \notin DOMAIN eval_result

\* A flagged answer met a candidate with five hard points and seven criteria.
FlaggedReached ==
    /\ pc = "eval_done"
    /\ LlmFlagged
    /\ HardScore(HardSignals(repo_data, file_list)) = 5
    /\ llm_log[1].data["honest_tone"]
    /\ eval_result["score"] = 5 + LLM_REJECT_SCORE

\* The points of the hard signals of the candidate under evaluation, counted
\* from its data: contributors, size, process files, workflows, stars.
HardPoints ==
    LET c == Get(repo_data, "contributors_count", 1)
        z == Get(repo_data, "size", 0)
        n == Get(repo_data, "stars", 0)
    IN (IF MIN_CONTRIBUTORS <= c /\ c <= MAX_CONTRIBUTORS THEN 1 ELSE 0)
           + (IF MIN_SIZE_KB <= z /\ z <= MAX_SIZE_KB THEN 1 ELSE 0)
           + (IF Cardinality(FoundCorporate(file_list)) <= 1 THEN 1 ELSE 0)
           + (IF Cardinality(Workflows(file_list)) <= 1 THEN 1 ELSE 0)
           + (IF 0 <= n /\ n <= MAX_STARS THEN 1 ELSE 0)

\* The points of the qualitative assessment: none when it failed, the
\* rejection score when it raised a flag, else one for every key of the
\* answer that is true.
SoftPoints ==
    IF llm_log[1].kind # "json" THEN 0
    ELSE IF LlmFlagged THEN LLM_REJECT_SCORE
    ELSE Cardinality({k \in DOMAIN llm_log[1].data : llm_log[1].data[k]})

\* The candidate passed the fatal checks and the evaluation is over.
Survived == pc = "eval_done" /\ llm_log # <<>>

\* C24: for a candidate that passed the fatal checks the result carries the
\* score, hard points plus points of the qualitative assessment, the signals
\* (the hard signals and the keys of the answer), and is_personal_gold, which
\* is true exactly when the score is at least GOLD_BAR.
C24_GoldIffAtLeastBar ==
    Survived =>
        /\ eval_result["score"] = HardPoints + SoftPoints
        /\ eval_result["is_personal_gold"] <=> (HardPoints + SoftPoints >= GOLD_BAR)
        /\ "signals" \in DOMAIN eval_result
        /\ {"contributors", "size", "process_files", "ci_cd", "dependencies", "stars"}
               \subseteq DOMAIN eval_result["signals"]
        /\ llm_log[1].kind = "json" =>
               \A k \in DOMAIN llm_log[1].data :
                   /\ k \in DOMAIN eval_result["signals"]
                   /\ eval_result["signals"][k] = llm_log[1].data[k]

\* C24 witness: five hard points and three criteria give exactly GOLD_BAR,
\* and the candidate is personal gold.
C24_Witness ==
    /\ Survived
    /\ HardPoints = 5
    /\ llm_log[1].kind = "json"
    /\ SoftPoints = 3
    /\ eval_result["score"] = GOLD_BAR
    /\ eval_result["is_personal_gold"]
    /\ eval_result["signals"]["human_readme"]
    /\ ~eval_result["signals"]["focused_scope"]

\* One point below the bar: not personal gold.
C24_WitnessBelow ==
    /\ Survived
    /\ eval_result["score"] = GOLD_BAR - 1
    /\ ~eval_result["is_personal_gold"]

\* The qualitative assessment failed: the invocation raised, or the answer
\* holds no JSON object that parses.
LlmFailed == llm_log # <<>> /\ llm_log[1].kind \in {"raise", "no_json", "bad_json"}

\* C29: when the qualitative assessment fails the evaluator still returns: a
\* result that is not rejected, whose score is the hard points alone, at most
\* 5, and that is not personal gold.  A candidate that is personal gold had
\* an answer that parsed.
C29_NoGoldWithoutLlm ==
    /\ (pc = "eval_done" /\ LlmFailed) =>
           /\ ~eval_result["rejected"]
           /\ eval_result["score"] = HardPoints
           /\ eval_result["score"] <= 5
           /\ ~eval_result["is_personal_gold"]
    /\ (pc = "eval_done" /\ eval_result["is_personal_gold"]) =>
           /\ llm_log # <<>>
           /\ llm_log[1].kind = "json"
    /\ llm_log # <<>> => pc = "eval_done"

\* C29 witness: the invocation raised for a candidate with every hard signal
\* in its favour; its score is 5 and it is not personal gold.
C29_Witness ==
    /\ pc = "eval_done"
    /\ llm_log = <<[kind |-> "raise"]>>
    /\ HardPoints = 5
    /\ eval_result["score"] = 5
    /\ ~eval_result["is_personal_gold"]
    /\ ~eval_result["rejected"]

\* The answer held a {...} that is not JSON.
C29_WitnessBadJson ==
    /\ pc = "eval_done"
    /\ llm_log = <<[kind |-> "bad_json"]>>
    /\ eval_result["score"] = HardPoints

(***************************************************************************)
(* tools/github.py: fetch_file_content and the file-content cache          *)
(*                                                                         *)
(* FILE_CONTENT_CACHE is a dict of the module.  Every workflow of the      *)
(* process reads and writes it: app.py starts each workflow in a thread of *)
(* its own.  A coroutine looks the URL up, awaits the fetch if the URL is  *)
(* not there, and stores the text of a 200 response.  The file behind a    *)
(* download URL is the head of a branch, so two fetches of one URL may     *)
(* meet two texts.                                                         *)
(***************************************************************************)
\* The most coroutines started.
MaxCacheTasks == 3

CacheUrls == {"raw/o/a/main/ARCH.md", "raw/o/b/main/ARCH.md"}
CacheTexts == {"text-1", "text-2"}

\* What the fetch of a download URL may meet: 200 with a text, another
\* status, or an exception.
FileResponses ==
    {[kind |-> "ok", text |-> t] : t \in CacheTexts}
        \cup {[kind |-> "status"], [kind |-> "raise"]}

\* A coroutine that has been called and has not run yet.
NewCacheTask(url) == [url |-> url, at |-> "lookup", returned |-> ""]

InitCache ==
    /\ pc = "cache"
    /\ FILE_CONTENT_CACHE = <<>>
    /\ cache_tasks = <<>>
    /\ EvalIdle
    /\ DirIdle
    /\ reranked_candidates = <<>>
    /\ FilterIdleInputs
    /\ MergeIdle
    /\ RerankIdle
    /\ DocIdle
    /\ QueryIdle
    /\ IngestIdle

cacheFrame ==
    <<pc, filterVars, mergeVars, rerankVars, docVars, queryVars, ingestVars,
      evalVars, dirVars>>

\* fetch_file_content(download_url, client) is called.
cache_call(url) ==
    /\ Len(cache_tasks) < MaxCacheTasks
    /\ cache_tasks' = Append(cache_tasks, NewCacheTask(url))
    /\ UNCHANGED <<FILE_CONTENT_CACHE, cacheFrame>>

\* if download_url in FILE_CONTENT_CACHE: return the entry; else the fetch is
\* sent and the coroutine waits for it.
cache_lookup(i) ==
    /\ cache_tasks[i].at = "lookup"
    /\ cache_tasks' =
           [cache_tasks EXCEPT ![i] =
               IF cache_tasks[i].url \in DOMAIN FILE_CONTENT_CACHE
               THEN [@ EXCEPT !.at = "hit",
                              !.returned = FILE_CONTENT_CACHE[cache_tasks[i].url]]
               ELSE [@ EXCEPT !.at = "await"]]
    /\ UNCHANGED <<FILE_CONTENT_CACHE, cacheFrame>>

\* A store that keeps the text a URL already has (not what the code does).
StoreText_IfAbsent(cache, url, text) ==
    IF url \in DOMAIN cache THEN cache
    ELSE [u \in DOMAIN cache \cup {url} |-> IF u = url THEN text ELSE cache[u]]

\* FILE_CONTENT_CACHE[download_url] = text
StoreText(cache, url, text) ==
    [u \in DOMAIN cache \cup {url} |-> IF u = url THEN text ELSE cache[u]]

\* The fetch returns: a 200 response is stored and returned, anything else
\* gives "".
cache_response(i) ==
    /\ cache_tasks[i].at = "await"
    /\ \E resp \in FileResponses :
           IF resp.kind = "ok"
           THEN /\ FILE_CONTENT_CACHE' =
                       StoreText(FILE_CONTENT_CACHE, cache_tasks[i].url, resp.text)
                /\ cache_tasks' =
                       [cache_tasks EXCEPT ![i] =
                           [@ EXCEPT !.at = "stored", !.returned = resp.text]]
           ELSE /\ cache_tasks' =
                       [cache_tasks EXCEPT ![i] = [@ EXCEPT !.at = "failed"]]
                /\ UNCHANGED FILE_CONTENT_CACHE
    /\ UNCHANGED cacheFrame

NextCache ==
    \/ \E url \in CacheUrls : cache_call(url)
    \/ \E i \in DOMAIN cache_tasks : cache_lookup(i)
    \/ \E i \in DOMAIN cache_tasks : cache_response(i)

SpecCache == InitCache /\ [][NextCache]_vars

\* C25: an entry of the cache, once written, keeps its value: no step of any
\* coroutine changes the text stored for a URL.
C25_CacheEntriesImmutable ==
    [][\A u \in DOMAIN FILE_CONTENT_CACHE :
           /\ u \in DOMAIN FILE_CONTENT_CACHE'
           /\ FILE_CONTENT_CACHE'[u] = FILE_CONTENT_CACHE[u]]_vars

\* Two coroutines for one URL both found no entry; each stored the text of
\* its own response, and the entry now holds the second text while the first
\* coroutine returned the first.
C25_OverwriteReached ==
    \E i, j \in DOMAIN cache_tasks :
        /\ i # j
        /\ cache_tasks[i].url = cache_tasks[j].url
        /\ cache_tasks[i].at = "stored"
        /\ cache_tasks[j].at = "stored"
        /\ cache_tasks[i].returned # cache_tasks[j].returned

\* What holds of the cache: an entry is never removed, and a coroutine that
\* looks up a URL that has an entry returns the entry and stores nothing.
CacheEntriesStay ==
    [][\A u \in DOMAIN FILE_CONTENT_CACHE : u \in DOMAIN FILE_CONTENT_CACHE']_vars

CacheHitStoresNothing ==
    [][\A i \in DOMAIN cache_tasks :
           (cache_tasks[i].at = "lookup"
                /\ cache_tasks[i].url \in DOMAIN FILE_CONTENT_CACHE
                /\ cache_tasks'[i].at # "lookup")
               => /\ FILE_CONTENT_CACHE' = FILE_CONTENT_CACHE
                  /\ cache_tasks'[i].at = "hit"
                  /\ cache_tasks'[i].returned
                         = FILE_CONTENT_CACHE[cache_tasks[i].url]]_vars

(***************************************************************************)
(* tools/github.py: fetch_directory_markdown                               *)
(*                                                                         *)
(* The listing of docs/ or documentation/ is a list of items, files and    *)
(* sub-directories in the order the API gives them.  The text of a file is *)
(* modelled by the name of the file it belongs to.                         *)
(***************************************************************************)
\* The longest listing.
MaxDirItems == 3

\* The items a listing is drawn from: markdown files (one with an upper-case
\* suffix), a file that is no markdown, and a sub-directory.
DirEntries ==
    { [type |-> "file", name |-> "a.md"],
      [type |-> "file", name |-> "B.MD"],
      [type |-> "file", name |-> "c.md"],
      [type |-> "file", name |-> "x.png"],
      [type |-> "dir",  name |-> "img"] }

\* A listing names no item twice.
DirListings ==
    {q \in SeqUpTo(DirEntries, MaxDirItems) :
        \A i, j \in DOMAIN q : i # j => q[i].name # q[j].name}

\* item["type"] == "file" and item["name"].lower().endswith(".md")
EndsWith(s, suffix) ==
    /\ Len(s) >= Len(suffix)
    /\ SubSeq(s, Len(s) - Len(suffix) + 1, Len(s)) = suffix
IsMarkdownFile(item) == item.type = "file" /\ EndsWith(Lower(item.name), ".md")

\* The text behind the download URL of a file.
TextOf(name) == "text of " \o name

\* The items a fetch_file_content task is created for, in the order of the
\* listing.
RECURSIVE MarkdownItems(_)
MarkdownItems(items) ==
    IF items = <<>> THEN <<>>
    ELSE IF IsMarkdownFile(Head(items))
         THEN <<Head(items)>> \o MarkdownItems(Tail(items))
         ELSE MarkdownItems(Tail(items))

\* What the gather may return for the task of a file: its text, "" when
\* fetch_file_content met a failure, or the exception that ended the task.
FileResults(item) ==
    {[kind |-> "text", text |-> TextOf(item.name)],
     [kind |-> "text", text |-> ""],
     [kind |-> "exception"]}

\* results = await asyncio.gather(*tasks, return_exceptions=True)
GatherRuns(tasks) ==
    {r \in [DOMAIN tasks -> UNION {FileResults(tasks[i]) : i \in DOMAIN tasks}] :
        \A i \in DOMAIN r : r[i] \in FileResults(tasks[i])}

\* Pairing each markdown file with the result of its own task (not what the
\* code does).
RECURSIVE SectionsByTask(_, _)
SectionsByTask(items, results) ==
    IF items = <<>> \/ results = <<>> THEN <<>>
    ELSE IF ~IsMarkdownFile(Head(items)) THEN SectionsByTask(Tail(items), results)
    ELSE (IF Head(results).kind = "text"
          THEN <<[header |-> Head(items).name, content |-> Head(results).text]>>
          ELSE <<>>)
             \o SectionsByTask(Tail(items), Tail(results))

\* for item, content in zip(items, results): a section for every pair whose
\* item is a markdown file and whose content is no exception.
RECURSIVE ZipSections(_, _)
ZipSections(items, results) ==
    IF items = <<>> \/ results = <<>> THEN <<>>
    ELSE (IF IsMarkdownFile(Head(items)) /\ Head(results).kind = "text"
          THEN <<[header |-> Head(items).name, content |-> Head(results).text]>>
          ELSE <<>>)
             \o ZipSections(Tail(items), Tail(results))

InitDir ==
    /\ pc = "dir_list"
    /\ dir_items = <<>>
    /\ dir_results = <<>>
    /\ dir_md = <<>>
    /\ EvalIdle
    /\ CacheIdle
    /\ reranked_candidates = <<>>
    /\ FilterIdleInputs
    /\ MergeIdle
    /\ RerankIdle
    /\ DocIdle
    /\ QueryIdle
    /\ IngestIdle

dirFrame ==
    <<filterVars, mergeVars, rerankVars, docVars, queryVars, ingestVars,
      evalVars, cacheVars>>

\* The listing is requested: an exception or a status other than 200 gives
\* "", a 200 gives the items, and with no markdown file among them "" again.
dir_list ==
    /\ pc = "dir_list"
    /\ \/ /\ pc' = "dir_done"
          /\ UNCHANGED dir_items
       \/ \E items \in DirListings :
              /\ dir_items' = items
              /\ pc' = IF MarkdownItems(items) = <<>> THEN "dir_done"
                       ELSE "dir_gather"
    /\ UNCHANGED <<dir_results, dir_md, dirFrame>>

\* The gather returns and the loop over zip(items, results) builds
\* md_content.
dir_gather ==
    /\ pc = "dir_gather"
    /\ \E results \in GatherRuns(MarkdownItems(dir_items)) :
           /\ dir_results' = results
           /\ dir_md' = ZipSections(dir_items, results)
    /\ pc' = "dir_done"
    /\ UNCHANGED <<dir_items, dirFrame>>

NextDir ==
    \/ dir_list
    \/ dir_gather

SpecDir == InitDir /\ [][NextDir]_vars

\* The k-th markdown file of the listing and the result of its task.
FetchedOk(k) == dir_results[k].kind = "text" /\ dir_results[k].text # ""

\* C27: for any listing, the result holds, for every markdown file whose
\* fetch gave its text, a section with the name of that file as header and
\* that text as content, and no section holds the text of another file.
C27_ContentUnderOwnName ==
    pc = "dir_done" =>
        /\ \A k \in DOMAIN dir_results :
               FetchedOk(k) =>
                   \E n \in DOMAIN dir_md :
                       /\ dir_md[n].header = MarkdownItems(dir_items)[k].name
                       /\ dir_md[n].content = dir_results[k].text
        /\ \A n \in DOMAIN dir_md :
               dir_md[n].content \in {"", TextOf(dir_md[n].header)}

\* The two halves of C27, each on a listing of its own.
\* No text is dropped: violated by the listing img/, a.md.
C27_NoContentDropped ==
    (pc = "dir_done" /\ Len(dir_items) = 2 /\ dir_items[1].name = "img"
        /\ dir_items[2].name = "a.md" /\ Len(dir_results) = 1 /\ FetchedOk(1))
        => dir_md # <<>>

\* No text is put under another name: violated by the listing x.png, a.md,
\* c.md, where the text of c.md goes under "# a.md".
C27_NoContentMisplaced ==
    (pc = "dir_done" /\ Len(dir_items) = 3 /\ dir_items[1].name = "x.png"
        /\ dir_items[2].name = "a.md" /\ dir_items[3].name = "c.md")
        => \A n \in DOMAIN dir_md : dir_md[n].content # "text of c.md"

\* No markdown file of the listing comes after an item that is none.
MarkdownFirst ==
    \A i, j \in DOMAIN dir_items :
        (i < j /\ IsMarkdownFile(dir_items[j])) => IsMarkdownFile(dir_items[i])

\* What does hold: when the markdown files come first in the listing, the
\* sections are those of pairing each file with its own task.
AlignedWhenMarkdownFirst ==
    (pc = "dir_done" /\ MarkdownFirst /\ dir_results # <<>>) =>
        /\ dir_md = SectionsByTask(dir_items, dir_results)
        /\ \A n \in DOMAIN dir_md :
               dir_md[n].content \in {"", TextOf(dir_md[n].header)}

\* Three markdown files, an upper-case suffix among them, each under its
\* own name.
AlignedReached ==
    /\ pc = "dir_done"
    /\ Len(dir_md) = 3
    /\ \E n \in DOMAIN dir_md :
           dir_md[n] = [header |-> "B.MD", content |-> "text of B.MD"]

(***************************************************************************)
(* tools/merge_analysis.py: the order and the completeness of the merge    *)
(***************************************************************************)
\* The place where the allow-list stream first names n.
FirstPlace(n) ==
    MinOf({k \in DOMAIN allow_list : allow_list[k]["full_name"] = n})

\* C28: in Personal Project mode the full names of the output are exactly
\* those of the allow-list stream, each once, in the order in which the
\* allow-list first names them, whatever the activity and quality streams
\* hold.
C28_MergeKeepsAllowList ==
    (pc = "merge_done" /\ project_type = "Personal Project") =>
        /\ KeySet(filtered_candidates) = KeySet(allow_list)
        /\ Len(filtered_candidates) = Cardinality(KeySet(allow_list))
        /\ \A i, j \in DOMAIN filtered_candidates :
               i < j => FirstPlace(filtered_candidates[i]["full_name"])
                            < FirstPlace(filtered_candidates[j]["full_name"])

\* C28 witness: the allow-list names o/b and then o/a; the activity stream
\* holds o/a alone and the quality stream does not hold o/b: the output is
\* o/b, untouched, and then o/a with its activity score.
C28_Witness ==
    /\ pc = "merge_done"
    /\ project_type = "Personal Project"
    /\ Len(allow_list) = 2
    /\ allow_list[1]["full_name"] = "o/b"
    /\ allow_list[2]["full_name"] = "o/a"
    /\ activity_candidates # <<>>
    /\ KeySet(activity_candidates) = {"o/a"}
    /\ "o/b" \notin KeySet(quality_candidates)
    /\ Len(filtered_candidates) = 2
    /\ filtered_candidates[1] = allow_list[1]
    /\ filtered_candidates[2]["full_name"] = "o/a"
    /\ "activity_score" \in DOMAIN filtered_candidates[2]

\* The allow-list names one candidate twice: the output holds it once.
C28_WitnessRepeated ==
    /\ pc = "merge_done"
    /\ project_type = "Personal Project"
    /\ Len(allow_list) = 2
    /\ allow_list[1]["full_name"] = allow_list[2]["full_name"]
    /\ Len(filtered_candidates) = 1

(***************************************************************************)
(* tools/github.py: the legacy searchable_query                            *)
(***************************************************************************)
\* The run falls back to the legacy string, and the string ends with a
\* target tag that names a language.
LegacyWithTarget ==
    /\ searchable_queries = <<>>
    /\ LET parts == StrippedParts(searchable_query)
       IN /\ parts # <<>>
          /\ Len(parts[Len(parts)]) > 1
          /\ parts[Len(parts)][1] = "target-"
          /\ LanguageOf(searchable_query) # ""

\* The star filter of the mode.
StarOf(ptype) == IF ptype = "Personal Project" THEN " stars:5..500" ELSE " stars:>5"

\* C30: when the run falls back to the legacy colon-separated string and the
\* string ends with target-<language>, there is one search request for each
\* other tag, it carries " language:<language>", and there is no request for
\* the target tag.
C30_LegacyLanguageFilter ==
    (pc = "query_done" /\ LegacyWithTarget) =>
        search_requests =
            [t \in DOMAIN SearchTermsOf(searchable_query) |->
                Str(SearchTermsOf(searchable_query)[t]) \o StarOf(project_type)
                    \o " language:" \o LanguageOf(searchable_query)]

\* C30 on the string kafka:target-python alone.
C30_KafkaTargetPython ==
    (pc = "query_done" /\ searchable_queries = <<>>
        /\ searchable_query = <<"kafka", ":", "target-", "python">>
        /\ project_type = "All")
        => search_requests = <<"kafka stars:>5 language:python">>

\* What the code does with the legacy string: every piece between the colons
\* is a combo of its own, so the target tag is a combo with no search term
\* and the other tags are combos with no target tag.  There is no request
\* for the target tag, and no request carries a language.
LegacyDropsLanguage ==
    (pc = "query_done" /\ LegacyWithTarget) =>
        search_requests =
            [t \in DOMAIN SearchTermsOf(searchable_query) |->
                Str(SearchTermsOf(searchable_query)[t]) \o StarOf(project_type)]

\* kafka:fintech:target-python gave the two requests without the language.
LegacyReached ==
    /\ pc = "query_done"
    /\ searchable_queries = <<>>
    /\ searchable_query = <<"kafka", ":", "fintech", ":", "target-", "python">>
    /\ project_type = "All"
    /\ search_requests = <<"kafka stars:>5", "fintech stars:>5">>

(***************************************************************************)
(* tools/github.py: what leaves ingest_github_repos_async                  *)
(***************************************************************************)
\* C26: whatever the requests of a run meet, ingest_github_repos_async
\* returns its list: no exception leaves it.
C26_IngestNeverRaises == pc # "ingest_raised"

\* What does hold: a raising fetch, an error status with or without a JSON
\* body, a page with no items and a raising documentation fetch all end in
\* the return of a list; an exception leaves the function only from the
\* deduplication loop, for a full name that cannot be hashed.
RaisesOnlyInDedup ==
    pc = "ingest_raised" =>
        /\ \E i \in DOMAIN all_repos : ~Hashable(all_repos[i]["full_name"])
        /\ state_repositories = <<>>

\* Every request of a run met an error (a raise, or a status that is not
\* 200) and the run returned the empty list.
AllErrorsReturnEmpty ==
    /\ pc = "ingest_done"
    /\ Len(search_requests) = 2
    /\ state_repositories = <<>>
    /\ \A k \in DOMAIN page_log :
           \A e \in DOMAIN page_log[k] :
               page_log[k][e].ev = "fetch" =>
                   (page_log[k][e].raised \/ page_log[k][e].status # 200)

\* A page held a hit with an unhashable full name and the exception left the
\* function.
RaiseReached ==
    /\ pc = "ingest_raised"
    /\ Len(all_repos) >= 2
    /\ Hashable(all_repos[1]["full_name"])

====
